---------------------------- MODULE Spec2Model ----------------------------
(***************************************************************************)
(* A model of the decision core of dollarpe-p2p: the risk service          *)
(* (RiskService, src/unnamed/part_000), the KYC service (KYCService,       *)
(* src/src/services/kycService.ts) and the record store they read and      *)
(* write through prisma.                                                   *)
(*                                                                         *)
(* Numbers.  The code computes in IEEE doubles; the model computes in      *)
(* exact arithmetic on scaled integers:                                    *)
(*   - a risk factor's score and the risk thresholds are in tenths         *)
(*     (0.7 is 7), the severity weights are in tenths (0.6 is 6);          *)
(*   - the overall risk score is the exact fraction num/den, in tenths,    *)
(*     kept in lowest terms;                                               *)
(*   - the KYC weights, penalty, score and thresholds are in hundredths    *)
(*     (0.15 is 15); an OCR confidence is in hundredths;                   *)
(*   - amounts are whole currency units, time is in hours.                 *)
(***************************************************************************)
EXTENDS Integers, Sequences, FiniteSets, TLC

(***************************************************************************)
(* Bounds of the model.                                                    *)
(***************************************************************************)
MaxFactors == 3
MaxReasons == 11
MaxOrders == 2
MaxDocs == 2
MaxMsgs == 1
MaxTicks == 2
MaxCallers == 2
MaxDetections == 3

VARIABLES
    now,               \* the clock (Date.now()), in hours
    orders,            \* prisma.p2POrder: id -> order record
    documents,         \* prisma.document: order id -> sequence of documents
    chatMessages,      \* prisma.chatMessage: order id -> sequence of messages
    kycVerifications,  \* prisma.kycVerification: order id -> optional record
    riskAssessments,   \* prisma.riskAssessment: order id -> optional record
    providers,         \* what the external providers answer
    arg,               \* the argument of a pure function under test
    ret,               \* the outcome of the last call
    calls,             \* the calls in flight, per caller (assessOrder in
                       \* SpecUpsert, processDetectedOrder in SpecDetect)
    riskAssessmentRows, \* prisma.riskAssessment as a table: a sequence of rows
    automation,        \* BrowserAutomationService: its sessions, the tables
                       \* it writes, the events it emits, and the chat
                       \* replies and sent messages of the platform
    ocr                \* OCRService: prisma.document as a table by document
                       \* id, and the processDocument calls in flight

vars == <<now, orders, documents, chatMessages, kycVerifications,
          riskAssessments, providers, arg, ret, calls, riskAssessmentRows,
          automation, ocr>>
inputs == <<orders, documents, chatMessages, providers, arg>>
inFlight == <<calls, riskAssessmentRows, ocr>>

\* null and undefined, for a string-valued field
null == "null"

\* An optional record or number: the empty sequence, or the value alone.
None == <<>>
Some(x) == <<x>>

(***************************************************************************)
(* Arithmetic helpers.                                                     *)
(***************************************************************************)
Max(a, b) == IF a >= b THEN a ELSE b

Abs(a) == IF a >= 0 THEN a ELSE 0 - a

RECURSIVE Gcd(_, _)
Gcd(a, b) == IF b = 0 THEN a ELSE Gcd(b, a % b)

\* The number num/den (den > 0, num >= 0) in lowest terms.
Fraction(num, den) ==
    LET g == Gcd(num, den)
    IN  [num |-> num \div g, den |-> den \div g]

\* a/b >= t, a/b <= t and a/b < t for a fraction f and an integer t.
FracGe(f, t) == f.num >= t * f.den
FracLe(f, t) == f.num <= t * f.den
FracLt(f, t) == f.num < t * f.den

(***************************************************************************)
(* RiskService: factors, aggregation and the recommendation policy.        *)
(***************************************************************************)
Severities == {"LOW", "MEDIUM", "HIGH", "CRITICAL"}

\* A RiskFactor.  The description is a function of the type in every factor
\* the assessors build, so the type stands for both; details are not read.
Factor(type, severity, score) ==
    [type |-> type, severity |-> severity, score |-> score]

MutWeightsFlat(severity) == 1

\* const weights = { LOW: 0.1, MEDIUM: 0.3, HIGH: 0.6, CRITICAL: 1.0 }
weights(severity) ==
    CASE severity = "LOW" -> 1
      [] severity = "MEDIUM" -> 3
      [] severity = "HIGH" -> 6
      [] severity = "CRITICAL" -> 10

RISK_THRESHOLD_LOW == 3
RISK_THRESHOLD_MEDIUM == 6
RISK_THRESHOLD_HIGH == 8
RISK_THRESHOLD_CRITICAL == 10
AUTO_APPROVE_THRESHOLD == 2
MANUAL_REVIEW_THRESHOLD == 7

RECURSIVE totalWeightedScore(_)
\* the forEach loop's totalWeightedScore += factor.score * weight
totalWeightedScore(factors) ==
    IF factors = <<>> THEN 0
    ELSE Head(factors).score * weights(Head(factors).severity)
         + totalWeightedScore(Tail(factors))

RECURSIVE totalWeight(_)
\* the forEach loop's totalWeight += weight
totalWeight(factors) ==
    IF factors = <<>> THEN 0
    ELSE weights(Head(factors).severity) + totalWeight(Tail(factors))

calculateOverallScore(factors) ==
    IF Len(factors) = 0 THEN Fraction(0, 1)
    ELSE IF totalWeight(factors) > 0
         THEN Fraction(totalWeightedScore(factors), totalWeight(factors))
         ELSE Fraction(0, 1)

determineRiskLevel(score) ==
    IF FracGe(score, RISK_THRESHOLD_CRITICAL) THEN "CRITICAL"
    ELSE IF FracGe(score, RISK_THRESHOLD_HIGH) THEN "HIGH"
    ELSE IF FracGe(score, RISK_THRESHOLD_MEDIUM) THEN "MEDIUM"
    ELSE "LOW"

criticalFactors(factors) ==
    SelectSeq(factors, LAMBDA f : f.severity = "CRITICAL")

highRiskFactors(factors) ==
    SelectSeq(factors, LAMBDA f : f.severity = "HIGH")

MutRecommendationScoreFirst(score, factors) ==
    IF Len(highRiskFactors(factors)) > 0
       \/ FracGe(score, MANUAL_REVIEW_THRESHOLD)
    THEN "MANUAL_REVIEW"
    ELSE IF Len(criticalFactors(factors)) > 0 THEN "REJECT"
    ELSE IF FracLe(score, AUTO_APPROVE_THRESHOLD) THEN "AUTO_APPROVE"
    ELSE "MANUAL_REVIEW"

MutRecommendationIgnoresHigh(score, factors) ==
    IF Len(criticalFactors(factors)) > 0 THEN "REJECT"
    ELSE IF FracGe(score, MANUAL_REVIEW_THRESHOLD) THEN "MANUAL_REVIEW"
    ELSE IF FracLe(score, AUTO_APPROVE_THRESHOLD) THEN "AUTO_APPROVE"
    ELSE "MANUAL_REVIEW"

determineRecommendation(score, factors) ==
    IF Len(criticalFactors(factors)) > 0 THEN "REJECT"
    ELSE IF Len(highRiskFactors(factors)) > 0
            \/ FracGe(score, MANUAL_REVIEW_THRESHOLD)
    THEN "MANUAL_REVIEW"
    ELSE IF FracLe(score, AUTO_APPROVE_THRESHOLD) THEN "AUTO_APPROVE"
    ELSE "MANUAL_REVIEW"

\* The notes: the fixed text for no factor, else the factor count followed by
\* the descriptions of the CRITICAL and of the HIGH factors, in list order.
generateRiskNotes(factors) ==
    IF Len(factors) = 0
    THEN [text |-> "No significant risk factors identified."]
    ELSE [text |-> "Risk assessment identified factor(s).",
          count |-> Len(factors),
          critical |-> [i \in DOMAIN criticalFactors(factors) |->
                            criticalFactors(factors)[i].type],
          high |-> [i \in DOMAIN highRiskFactors(factors) |->
                        highRiskFactors(factors)[i].type]]


(***************************************************************************)
(* OCRService.extractPatterns.  An OCR text is one of three concrete       *)
(* strings; the table below is what the regular expressions of             *)
(* extractPatterns match in each of them.  A pattern is named by the       *)
(* literal its source starts with.                                         *)
(***************************************************************************)
TextPlain == "Sample OCR text from document"
TextIdCard == "ID: A123 NAME: JOHN DOE DOB: 01/02/1990"
TextPassport == "PASSPORT NO: P123 SURNAME: DOE GIVEN NAMES: JOHN"
OcrTexts == {TextPlain, TextIdCard, TextPassport}

\* const patterns: Record<string, RegExp[]>, in array order
patterns(documentType) ==
    CASE documentType = "ID_CARD" -> <<"ID", "NAME", "DOB">>
      [] documentType = "PASSPORT" -> <<"PASSPORT", "SURNAME", "GIVEN">>
      [] documentType = "BANK_STATEMENT" -> <<"ACCOUNT", "BALANCE">>
      [] OTHER -> <<>>

\* text.match(pattern): the first capture group, or null for no match.
match(text, pattern) ==
    CASE text = TextIdCard /\ pattern = "ID" -> "A123"
      [] text = TextIdCard /\ pattern = "NAME" -> "JOHN DOE DOB"
      [] text = TextIdCard /\ pattern = "DOB" -> "01/02/1990"
      [] text = TextPassport /\ pattern = "NAME" -> "DOE GIVEN NAMES"
      [] text = TextPassport /\ pattern = "PASSPORT" -> "P123"
      [] text = TextPassport /\ pattern = "SURNAME" -> "DOE GIVEN NAMES"
      [] text = TextPassport /\ pattern = "GIVEN" -> "JOHN"
      [] OTHER -> null

RECURSIVE extractLoop(_, _)
extractLoop(text, typePatterns) ==
    IF typePatterns = <<>> THEN <<>>
    ELSE IF match(text, Head(typePatterns)) # null
         THEN <<[key |-> Head(typePatterns),
                 value |-> match(text, Head(typePatterns))]>>
              \o extractLoop(text, Tail(typePatterns))
         ELSE extractLoop(text, Tail(typePatterns))

\* The extracted record, as its entries in insertion order.
extractPatterns(text, documentType) == extractLoop(text, patterns(documentType))

\* pattern.source.includes(word), for the words extractPersonalInfo looks for
sourceIncludes(pattern, word) ==
    CASE word = "NAME" -> pattern \in {"NAME", "SURNAME", "GIVEN"}
      [] word = "DOB" -> pattern = "DOB"
      [] word = "NUMBER" -> pattern \in {"ID", "PASSPORT", "ACCOUNT"}
      [] OTHER -> FALSE

(***************************************************************************)
(* KYCService: the result record, the checklist, score and status.         *)
(***************************************************************************)
ReasonOcrFailed == "Document OCR failed"
ReasonValidationFailed == "Document validation failed"
ReasonNoName == "No name available for sanctions check"
ReasonSanctioned == "Name found on sanctions list"
ReasonProcessFailed == "Verification process failed"

\* f.includes('sanctions')
includesSanctions(reason) == reason \in {ReasonNoName, ReasonSanctioned}

CheckNames ==
    <<"documentValid", "faceMatch", "livenessCheck", "sanctionsCheck",
      "addressVerification">>

\* const result: KYCResult = { status: 'REQUIRES_REVIEW', score: 0, ... }
NewKYCResult ==
    [status |-> "REQUIRES_REVIEW",
     score |-> 0,
     checks |-> [documentValid |-> FALSE, faceMatch |-> FALSE,
                 livenessCheck |-> FALSE, sanctionsCheck |-> FALSE,
                 addressVerification |-> FALSE],
     extractedData |-> [fullName |-> null, dateOfBirth |-> null,
                        documentNumber |-> null, address |-> null],
     riskFactors |-> <<>>,
     recommendations |-> <<>>]

\* const weights = { documentValid: 0.3, faceMatch: 0.2, ... }
kycWeights(check) ==
    CASE check = "documentValid" -> 30
      [] check = "faceMatch" -> 20
      [] check = "livenessCheck" -> 15
      [] check = "sanctionsCheck" -> 25
      [] check = "addressVerification" -> 10
      [] OTHER -> 0

KYC_PENALTY == 10
KYC_APPROVE_SCORE == 90
KYC_REJECT_SCORE == 30

RECURSIVE checksScore(_, _)
\* for (const [check, passed] of Object.entries(result.checks)) ...
checksScore(checks, names) ==
    IF names = <<>> THEN 0
    ELSE (IF checks[Head(names)] THEN kycWeights(Head(names)) ELSE 0)
         + checksScore(checks, Tail(names))

MutKYCScoreNoFloor(result) ==
    checksScore(result.checks, CheckNames) - Len(result.riskFactors) * KYC_PENALTY

calculateKYCScore(result) ==
    Max(0, checksScore(result.checks, CheckNames)
           - Len(result.riskFactors) * KYC_PENALTY)

MutKYCStatusMinimumScore(result) ==
    IF result.score >= 70 /\ Len(result.riskFactors) = 0
    THEN "APPROVED"
    ELSE IF result.score < KYC_REJECT_SCORE
            \/ \E i \in DOMAIN result.riskFactors :
                   includesSanctions(result.riskFactors[i])
    THEN "REJECTED"
    ELSE "REQUIRES_REVIEW"

MutKYCStatusNoSanctions(result) ==
    IF result.score >= KYC_APPROVE_SCORE /\ Len(result.riskFactors) = 0
    THEN "APPROVED"
    ELSE IF result.score < KYC_REJECT_SCORE THEN "REJECTED"
    ELSE "REQUIRES_REVIEW"

determineKYCStatus(result) ==
    IF result.score >= KYC_APPROVE_SCORE /\ Len(result.riskFactors) = 0
    THEN "APPROVED"
    ELSE IF result.score < KYC_REJECT_SCORE
            \/ \E i \in DOMAIN result.riskFactors :
                   includesSanctions(result.riskFactors[i])
    THEN "REJECTED"
    ELSE "REQUIRES_REVIEW"

pushReason(result, reason) ==
    [result EXCEPT !.riskFactors = Append(@, reason)]

(***************************************************************************)
(* KYCService.verifyIdentity.  The providers the code stubs with           *)
(* Math.random() answer nondeterministically: an answer record says what   *)
(* validateDocument, performFaceMatch, performLivenessCheck and the        *)
(* provider behind verifyAddress return for one document, `sanctioned` is  *)
(* what checkSanctionsList returns.  A fault is a call that throws; it is  *)
(* named by the call (FaultPoints) and, inside the document loop, by the   *)
(* index of the identity document being processed.  A fault point the run  *)
(* does not reach does not throw.                                          *)
(***************************************************************************)
DocFaultPoints ==
    {"findDocument", "extractPatterns", "validateDocument",
     "findSelfieDocument", "performFaceMatch", "performLivenessCheck",
     "verifyAddress"}
LateFaultPoints ==
    {"checkSanctionsList", "calculateKYCScore", "determineKYCStatus", "create"}
NoFault == [at |-> "none", doc |-> 0]

IdentityTypes == {"ID_CARD", "PASSPORT", "DRIVERS_LICENSE"}

Answers == [valid : BOOLEAN, face : BOOLEAN, live : BOOLEAN, address : BOOLEAN]

\* The state of one run of the pipeline: the result object as mutated so far,
\* whether a call threw and which, whether checkSanctionsList answered with a
\* hit, and whether result.score was assigned.
Start(result) ==
    [result |-> result, thrown |-> FALSE, thrownAt |-> "none", hit |-> FALSE,
     scored |-> FALSE]
Set(s, result) == [s EXCEPT !.result = result]
Throw(s, at) == [s EXCEPT !.thrown = TRUE, !.thrownAt = at]
\* Each step below starts from the state s the step before it left; after a
\* throw the remaining steps of the try block do not run.

RECURSIVE extractPersonalInfo(_, _)
extractPersonalInfo(extractedData, result) ==
    IF extractedData = <<>> THEN result
    ELSE extractPersonalInfo(
             Tail(extractedData),
             IF sourceIncludes(Head(extractedData).key, "NAME")
             THEN [result EXCEPT !.extractedData.fullName = Head(extractedData).value]
             ELSE IF sourceIncludes(Head(extractedData).key, "DOB")
             THEN [result EXCEPT !.extractedData.dateOfBirth = Head(extractedData).value]
             ELSE IF sourceIncludes(Head(extractedData).key, "NUMBER")
             THEN [result EXCEPT !.extractedData.documentNumber = Head(extractedData).value]
             ELSE result)

MutVerifyAddressAnswers(address, answer) == answer.address

\* if (!address) return false; else the provider's answer
verifyAddress(address, answer) ==
    IF address = null THEN FALSE ELSE answer.address

\* prisma.document.findFirst({ where: { orderId, fileType: 'SELFIE' } })
findSelfieDocument(docs) ==
    IF SelectSeq(docs, LAMBDA d : d.fileType = "SELFIE") = <<>> THEN None
    ELSE Some(Head(SelectSeq(docs, LAMBDA d : d.fileType = "SELFIE")))

\* result.checks.faceMatch = await this.performFaceMatch(document, selfieDoc)
performFaceMatch(s, answer, faultAt) ==
    IF s.thrown THEN s
    ELSE IF faultAt = "performFaceMatch" THEN Throw(s, faultAt)
    ELSE Set(s, [s.result EXCEPT !.checks.faceMatch = answer.face])

\* result.checks.livenessCheck = await this.performLivenessCheck(selfieDoc)
performLivenessCheck(s, answer, faultAt) ==
    IF s.thrown THEN s
    ELSE IF faultAt = "performLivenessCheck" THEN Throw(s, faultAt)
    ELSE Set(s, [s.result EXCEPT !.checks.livenessCheck = answer.live])

\* if (selfieDoc) { ... }
selfieChecks(s, docs, answer, faultAt) ==
    IF findSelfieDocument(docs) = None THEN s
    ELSE performLivenessCheck(performFaceMatch(s, answer, faultAt),
                              answer, faultAt)

\* result.checks.addressVerification = await this.verifyAddress(address)
addressCheck(s, answer, faultAt) ==
    IF s.thrown THEN s
    ELSE IF faultAt = "verifyAddress" /\ s.result.extractedData.address # null
    THEN Throw(s, faultAt)
    ELSE Set(s, [s.result EXCEPT !.checks.addressVerification =
                     verifyAddress(s.result.extractedData.address, answer)])

performDocumentChecks(docs, s, answer, faultAt) ==
    IF faultAt = "findSelfieDocument" THEN Throw(s, faultAt)
    ELSE addressCheck(selfieChecks(s, docs, answer, faultAt), answer, faultAt)

processIdentityDocument(document, docs, s, answer, faultAt) ==
    IF faultAt = "findDocument" THEN Throw(s, faultAt)
    ELSE IF document.ocrText = null
    THEN Set(s, pushReason(s.result, ReasonOcrFailed))
    ELSE IF faultAt \in {"extractPatterns", "validateDocument"}
    THEN Throw(s, faultAt)
    ELSE IF answer.valid
    THEN performDocumentChecks(
             docs,
             Set(s, extractPersonalInfo(
                        extractPatterns(document.ocrText, document.fileType),
                        [s.result EXCEPT !.checks.documentValid = TRUE])),
             answer, faultAt)
    ELSE Set(s, pushReason([s.result EXCEPT !.checks.documentValid = FALSE],
                           ReasonValidationFailed))

RECURSIVE processLoop(_, _, _, _, _, _)
\* for (const document of idDocuments) await this.processIdentityDocument(...)
\* idx lists the positions in docs of the identity documents still to process,
\* k is the number of those already processed.
processLoop(idx, k, docs, s, answers, fault) ==
    IF idx = <<>> \/ s.thrown THEN s
    ELSE processLoop(Tail(idx), k + 1, docs,
                     processIdentityDocument(
                         docs[Head(idx)], docs, s, answers[k + 1],
                         IF fault.doc = k + 1 THEN fault.at ELSE "none"),
                     answers, fault)

MutSanctionsSkipsSilently(s, sanctioned, faultAt) ==
    IF s.thrown THEN s
    ELSE IF s.result.extractedData.fullName = null THEN s
    ELSE IF faultAt = "checkSanctionsList" THEN Throw(s, faultAt)
    ELSE IF sanctioned
    THEN [s EXCEPT !.hit = TRUE,
                   !.result = pushReason(
                       [s.result EXCEPT !.checks.sanctionsCheck = FALSE],
                       ReasonSanctioned)]
    ELSE Set(s, [s.result EXCEPT !.checks.sanctionsCheck = TRUE])

performSanctionsCheck(s, sanctioned, faultAt) ==
    IF s.thrown THEN s
    ELSE IF s.result.extractedData.fullName = null
    THEN Set(s, pushReason(s.result, ReasonNoName))
    ELSE IF faultAt = "checkSanctionsList" THEN Throw(s, faultAt)
    ELSE IF sanctioned
    THEN [s EXCEPT !.hit = TRUE,
                   !.result = pushReason(
                       [s.result EXCEPT !.checks.sanctionsCheck = FALSE],
                       ReasonSanctioned)]
    ELSE Set(s, [s.result EXCEPT !.checks.sanctionsCheck = TRUE])

MutIdDocumentsAll(docs) == [i \in DOMAIN docs |-> i]

\* order.documents.filter(doc => [...].includes(doc.fileType)), as positions
idDocuments(docs) ==
    SelectSeq([i \in DOMAIN docs |-> i],
              LAMBDA i : docs[i].fileType \in IdentityTypes)

\* The record prisma.kycVerification.create writes.
KycRecord(result) ==
    [status |-> result.status, riskScore |-> result.score,
     verificationData |-> result]

\* result.score = this.calculateKYCScore(result)
assignScore(s, faultAt) ==
    IF s.thrown THEN s
    ELSE IF faultAt = "calculateKYCScore" THEN Throw(s, faultAt)
    ELSE [s EXCEPT !.scored = TRUE,
                   !.result = [s.result EXCEPT !.score = calculateKYCScore(s.result)]]

\* result.status = this.determineKYCStatus(result)
assignStatus(s, faultAt) ==
    IF s.thrown THEN s
    ELSE IF faultAt = "determineKYCStatus" THEN Throw(s, faultAt)
    ELSE Set(s, [s.result EXCEPT !.status = determineKYCStatus(s.result)])

\* await prisma.kycVerification.create(...).  `existing` is the order's stored
\* verification: orderId is the unique key of the one-to-one relation
\* p2POrder.kycVerification, so a create for an order that has one is
\* rejected by the store.
create(s, existing, faultAt) ==
    IF s.thrown THEN s
    ELSE IF faultAt = "create" \/ existing # None THEN Throw(s, "create")
    ELSE s

\* The fault of a call made after the document loop.
lateAt(fault) == IF fault.doc = 0 THEN fault.at ELSE "none"

\* The try block, from the document loop to the create.
tryBlock(docs, existing, answers, sanctioned, fault) ==
    create(
        assignStatus(
            assignScore(
                performSanctionsCheck(
                    processLoop(idDocuments(docs), 0, docs, Start(NewKYCResult),
                                answers, fault),
                    sanctioned, lateAt(fault)),
                lateAt(fault)),
            lateAt(fault)),
        existing, lateAt(fault))

MutGuardKeepsStatus(result) == pushReason(result, ReasonProcessFailed)

\* catch (error) { result.status = 'REJECTED'; result.riskFactors.push(...) }
lastResortGuard(result) ==
    pushReason([result EXCEPT !.status = "REJECTED"], ReasonProcessFailed)

\* What verifyIdentity does before the try block: the two throws.
Rejected(error) ==
    [outcome |-> "error", error |-> error, result |-> null, created |-> None,
     thrown |-> FALSE, thrownAt |-> "none", hit |-> FALSE,
     scoredBeforeThrow |-> FALSE]

MutReturnedStoresGuarded(s) ==
    [outcome |-> "ok", error |-> null,
     result |-> IF s.thrown THEN lastResortGuard(s.result) ELSE s.result,
     created |-> Some(KycRecord(IF s.thrown THEN lastResortGuard(s.result)
                                ELSE s.result)),
     thrown |-> s.thrown, thrownAt |-> s.thrownAt, hit |-> s.hit,
     scoredBeforeThrow |-> s.thrown /\ s.scored]

\* What verifyIdentity returns after the try block ended in state s.
Returned(s) ==
    [outcome |-> "ok", error |-> null,
     result |-> IF s.thrown THEN lastResortGuard(s.result) ELSE s.result,
     created |-> IF s.thrown THEN None ELSE Some(KycRecord(s.result)),
     thrown |-> s.thrown, thrownAt |-> s.thrownAt, hit |-> s.hit,
     scoredBeforeThrow |-> s.thrown /\ s.scored]

\* The outcome of verifyIdentity(orderId) in the current store: what the call
\* returns or throws, the record it creates, and for the properties whether
\* the catch block ran, whether the sanctions list had a hit and whether the
\* score had been assigned when the call threw.
verifyIdentity(orderId, fault) ==
    IF orderId \notin DOMAIN orders THEN Rejected("Order not found")
    ELSE IF Len(idDocuments(documents[orderId])) = 0
    THEN Rejected("No identity documents found")
    ELSE Returned(tryBlock(documents[orderId], kycVerifications[orderId],
                           providers.answers, providers.sanctioned, fault))


(***************************************************************************)
(* RiskService.assessOrder: the data lookups and the seven assessors.      *)
(* Each assessor is the sequence of factors it pushes, in push order.      *)
(***************************************************************************)
HOURS_RECENT_DEFAULT == 720
HOURS_RAPID == 24
HOURS_DISPUTE == 720
HISTORY_TAKE == 50
HIGH_VALUE == 10000
MEDIUM_VALUE == 5000

highRiskMethods == {"CASH", "GIFT_CARDS", "PREPAID_CARDS"}
mediumRiskMethods == {"PAYPAL", "VENMO", "CASHAPP"}
suspiciousKeywords == {"urgent", "hurry", "quick", "fast", "emergency", "problem"}

\* The message texts of the model and the keywords each contains in lower case.
MsgPlain == "hello, payment sent"
MsgUrgent == "URGENT please release"
keywordsIn(content) == IF content = MsgUrgent THEN {"urgent"} ELSE {}

RECURSIVE orderByCreatedAtDesc(_)
\* orderBy: { createdAt: 'desc' }; orders created in the same hour come in
\* id order (only the length and the amounts of the answer are read).
orderByCreatedAtDesc(ids) ==
    IF ids = {} THEN <<>>
    ELSE LET first == CHOOSE i \in ids :
                 \A j \in ids :
                     \/ orders[i].createdAt > orders[j].createdAt
                     \/ /\ orders[i].createdAt = orders[j].createdAt
                        /\ orders[i].id <= orders[j].id
         IN  <<orders[first]>> \o orderByCreatedAtDesc(ids \ {first})

getRecentOrdersByCounterparty(counterpartyId, hours) ==
    LET since == now - hours
    IN  orderByCreatedAtDesc(
            {i \in DOMAIN orders :
                 /\ orders[i].counterpartyId = counterpartyId
                 /\ orders[i].createdAt >= since})

getCounterpartyOrderHistory(counterpartyId) ==
    LET all == orderByCreatedAtDesc(
                   {i \in DOMAIN orders : orders[i].counterpartyId = counterpartyId})
    IN  IF Len(all) > HISTORY_TAKE THEN SubSeq(all, 1, HISTORY_TAKE) ELSE all

RECURSIVE sumAmounts(_)
\* recentOrders.reduce((sum, o) => sum + parseFloat(o.amount.toString()), 0)
sumAmounts(os) ==
    IF os = <<>> THEN 0 ELSE Head(os).amount + sumAmounts(Tail(os))

\* deviation > 2.0 for deviation = |amount - avg| / avg, avg = sum / length,
\* with both sides multiplied by sum (sum >= 0; an avg of 0 gives Infinity or
\* NaN in the code, which compare with 2.0 as the products do).
deviationExceeds(amount, recentOrders) ==
    Abs(amount * Len(recentOrders) - sumAmounts(recentOrders))
        > 2 * sumAmounts(recentOrders)

assessOrderAmount(order) ==
    LET recentOrders == getRecentOrdersByCounterparty(order.counterpartyId,
                                                      HOURS_RECENT_DEFAULT)
    IN  (IF order.amount > HIGH_VALUE
         THEN <<Factor("HIGH_VALUE_ORDER", "HIGH", 8)>>
         ELSE IF order.amount > MEDIUM_VALUE
         THEN <<Factor("MEDIUM_VALUE_ORDER", "MEDIUM", 4)>>
         ELSE <<>>)
        \o (IF Len(recentOrders) > 0 /\ deviationExceeds(order.amount, recentOrders)
            THEN <<Factor("UNUSUAL_AMOUNT_PATTERN", "MEDIUM", 5)>>
            ELSE <<>>)

assessCounterpartyRisk(order) ==
    LET counterpartyOrders == getCounterpartyOrderHistory(order.counterpartyId)
        recentDisputes == SelectSeq(counterpartyOrders,
                              LAMBDA o : /\ o.status = "DISPUTED"
                                         /\ o.createdAt > now - HOURS_DISPUTE)
        completedOrders == SelectSeq(counterpartyOrders,
                               LAMBDA o : o.status = "COMPLETED")
    IN  (IF Len(counterpartyOrders) = 0
         THEN <<Factor("NEW_COUNTERPARTY", "MEDIUM", 4)>> ELSE <<>>)
        \o (IF Len(recentDisputes) > 0
            THEN <<Factor("RECENT_DISPUTES", "HIGH", 7)>> ELSE <<>>)
        \* completionRate < 0.8, as 10 * completed < 8 * total
        \o (IF /\ Len(counterpartyOrders) >= 5
               /\ 10 * Len(completedOrders) < 8 * Len(counterpartyOrders)
            THEN <<Factor("LOW_COMPLETION_RATE", "MEDIUM", 5)>> ELSE <<>>)

assessPaymentMethodRisk(order) ==
    IF order.paymentMethod \in highRiskMethods
    THEN <<Factor("HIGH_RISK_PAYMENT_METHOD", "HIGH", 6)>>
    ELSE IF order.paymentMethod \in mediumRiskMethods
    THEN <<Factor("MEDIUM_RISK_PAYMENT_METHOD", "MEDIUM", 3)>>
    ELSE <<>>

assessDocumentRisk(docs) ==
    IF Len(docs) = 0 THEN <<Factor("NO_DOCUMENTS", "HIGH", 8)>>
    ELSE
    LET lowConfidenceDocs ==
            SelectSeq(docs, LAMBDA d : /\ d.ocrConfidence # None
                                       /\ d.ocrConfidence[1] # 0
                                       /\ d.ocrConfidence[1] < 70)
        failedDocs == SelectSeq(docs, LAMBDA d : d.status = "FAILED")
    IN  (IF Len(lowConfidenceDocs) > 0
         THEN <<Factor("LOW_DOCUMENT_QUALITY", "MEDIUM", 4)>> ELSE <<>>)
        \o (IF Len(failedDocs) > 0
            THEN <<Factor("DOCUMENT_PROCESSING_FAILED", "HIGH", 7)>> ELSE <<>>)

assessCommunicationRisk(msgs) ==
    IF Len(msgs) = 0 THEN <<Factor("NO_COMMUNICATION", "MEDIUM", 3)>>
    ELSE
    LET userMessages == SelectSeq(msgs, LAMBDA m : m.isFromUser)
        suspiciousMessages ==
            SelectSeq(userMessages,
                      LAMBDA m : keywordsIn(m.content) \cap suspiciousKeywords # {})
    IN  (IF Len(suspiciousMessages) > 0
         THEN <<Factor("SUSPICIOUS_COMMUNICATION", "MEDIUM", 4)>> ELSE <<>>)
        \o (IF Len(userMessages) > 20
            THEN <<Factor("EXCESSIVE_MESSAGING", "LOW", 2)>> ELSE <<>>)

\* kycVerification is the optional stored record; kyc.riskScore && ... is
\* false for a stored score of 0.
MutKYCRiskNoRecordPasses(kycVerification) ==
    IF kycVerification = None THEN <<>>
    ELSE LET kyc == kycVerification[1] IN
    IF kyc.status = "REJECTED" THEN <<Factor("KYC_REJECTED", "CRITICAL", 10)>>
    ELSE IF kyc.status = "REQUIRES_REVIEW"
    THEN <<Factor("KYC_REQUIRES_REVIEW", "HIGH", 7)>>
    ELSE IF kyc.riskScore # 0 /\ kyc.riskScore < 60
    THEN <<Factor("LOW_KYC_SCORE", "MEDIUM", 5)>>
    ELSE <<>>

MutKYCRiskRejectedHigh(kycVerification) ==
    IF kycVerification = None THEN <<Factor("NO_KYC_VERIFICATION", "HIGH", 9)>>
    ELSE LET kyc == kycVerification[1] IN
    IF kyc.status = "REJECTED" THEN <<Factor("KYC_REJECTED", "HIGH", 10)>>
    ELSE IF kyc.status = "REQUIRES_REVIEW"
    THEN <<Factor("KYC_REQUIRES_REVIEW", "HIGH", 7)>>
    ELSE IF kyc.riskScore # 0 /\ kyc.riskScore < 60
    THEN <<Factor("LOW_KYC_SCORE", "MEDIUM", 5)>>
    ELSE <<>>

assessKYCRisk(kycVerification) ==
    IF kycVerification = None THEN <<Factor("NO_KYC_VERIFICATION", "HIGH", 9)>>
    ELSE LET kyc == kycVerification[1] IN
    IF kyc.status = "REJECTED" THEN <<Factor("KYC_REJECTED", "CRITICAL", 10)>>
    ELSE IF kyc.status = "REQUIRES_REVIEW"
    THEN <<Factor("KYC_REQUIRES_REVIEW", "HIGH", 7)>>
    ELSE IF kyc.riskScore # 0 /\ kyc.riskScore < 60
    THEN <<Factor("LOW_KYC_SCORE", "MEDIUM", 5)>>
    ELSE <<>>

MutBehavioralHourNow(order) ==
    LET orderHour == now % 24
        recentOrders == getRecentOrdersByCounterparty(order.counterpartyId,
                                                      HOURS_RAPID)
    IN  (IF orderHour < 6 \/ orderHour > 22
         THEN <<Factor("UNUSUAL_TIMING", "LOW", 1)>> ELSE <<>>)
        \o (IF Len(recentOrders) > 3
            THEN <<Factor("RAPID_ORDERS", "MEDIUM", 4)>> ELSE <<>>)

assessBehavioralRisk(order) ==
    LET orderHour == order.createdAt % 24
        recentOrders == getRecentOrdersByCounterparty(order.counterpartyId,
                                                      HOURS_RAPID)
    IN  (IF orderHour < 6 \/ orderHour > 22
         THEN <<Factor("UNUSUAL_TIMING", "LOW", 1)>> ELSE <<>>)
        \o (IF Len(recentOrders) > 3
            THEN <<Factor("RAPID_ORDERS", "MEDIUM", 4)>> ELSE <<>>)

\* The factors in assessor-invocation order.
assessAll(orderId) ==
    assessOrderAmount(orders[orderId])
    \o assessCounterpartyRisk(orders[orderId])
    \o assessPaymentMethodRisk(orders[orderId])
    \o assessDocumentRisk(documents[orderId])
    \o assessCommunicationRisk(chatMessages[orderId])
    \o assessKYCRisk(kycVerifications[orderId])
    \o assessBehavioralRisk(orders[orderId])

MutResultFlagsBoth(orderId, factors) ==
    LET overallScore == calculateOverallScore(factors)
        recommendation == determineRecommendation(overallScore, factors)
    IN  [orderId |-> orderId,
         overallScore |-> overallScore,
         riskLevel |-> determineRiskLevel(overallScore),
         recommendation |-> recommendation,
         factors |-> factors,
         autoApproved |-> recommendation # "REJECT",
         reviewRequired |-> recommendation = "MANUAL_REVIEW",
         notes |-> generateRiskNotes(factors)]

\* const result: RiskAssessmentResult = { orderId, overallScore, ... }
RiskAssessmentResult(orderId, factors) ==
    LET overallScore == calculateOverallScore(factors)
        recommendation == determineRecommendation(overallScore, factors)
    IN  [orderId |-> orderId,
         overallScore |-> overallScore,
         riskLevel |-> determineRiskLevel(overallScore),
         recommendation |-> recommendation,
         factors |-> factors,
         autoApproved |-> recommendation = "AUTO_APPROVE",
         reviewRequired |-> recommendation = "MANUAL_REVIEW",
         notes |-> generateRiskNotes(factors)]

MutStoreRecommendation(result) ==
    [orderId |-> result.orderId,
     overallScore |-> result.overallScore,
     riskFactors |-> result.factors,
     recommendation |-> result.recommendation,
     autoApproved |-> result.autoApproved,
     reviewRequired |-> result.reviewRequired,
     notes |-> result.notes]

\* The record prisma.riskAssessment.upsert writes (create and update alike).
storeAssessment(result) ==
    [orderId |-> result.orderId,
     overallScore |-> result.overallScore,
     riskFactors |-> result.factors,
     recommendation |-> result.riskLevel,
     autoApproved |-> result.autoApproved,
     reviewRequired |-> result.reviewRequired,
     notes |-> result.notes]

MutUpsertCreates(rows, record) == Append(rows, record)

\* prisma.riskAssessment.upsert where { orderId }: the row with the orderId
\* is updated when there is one, and a row is created when there is none.
upsert(rows, record) ==
    IF \E i \in DOMAIN rows : rows[i].orderId = record.orderId
    THEN [i \in DOMAIN rows |->
              IF rows[i].orderId = record.orderId THEN record ELSE rows[i]]
    ELSE Append(rows, record)

MutAssessOrderDefault(orderId, fault) ==
    LET result == RiskAssessmentResult(
                      orderId,
                      IF orderId \in DOMAIN orders THEN assessAll(orderId) ELSE <<>>)
    IN  [outcome |-> "ok", error |-> null, result |-> result,
         upserted |-> Some(storeAssessment(result))]

\* The historical-order lookups of the assessors; each is an awaited query
\* that may reject.
LookupPoints == {"getRecentOrdersByCounterparty", "getCounterpartyOrderHistory"}

\* The outcome of assessOrder(orderId) in the current store at the current
\* time: what the call returns or throws and the record it upserts.  A
\* lookup that rejects (fault) rejects the call: the assessors are awaited
\* without a handler and every one of the lookups is reached for an
\* existing order.
assessOrder(orderId, fault) ==
    IF orderId \notin DOMAIN orders
    THEN [outcome |-> "error", error |-> "Order not found", result |-> null,
          upserted |-> None]
    ELSE IF fault \in LookupPoints
    THEN [outcome |-> "error", error |-> "findMany rejected", result |-> null,
          upserted |-> None]
    ELSE LET result == RiskAssessmentResult(orderId, assessAll(orderId))
         IN  [outcome |-> "ok", error |-> null, result |-> result,
              upserted |-> Some(storeAssessment(result))]

(***************************************************************************)
(* The state machine.  The store (orders, documents, chat messages) and    *)
(* the providers' answers are inputs: an initial state draws them from     *)
(* bounded sets, and the services act on them.                             *)
(***************************************************************************)
OrderIds == 1..MaxOrders

NoCall == [op |-> "none"]
Callers == 1..MaxCallers
NoCalls == [c \in Callers |-> [pc |-> "idle"]]
NoAutomation ==
    [sessions |-> {}, p2POrder |-> <<>>, chatMessage |-> <<>>,
     document |-> <<>>, auditLog |-> <<>>, events |-> <<>>,
     chatReply |-> <<>>, sentMessages |-> <<>>]
NoProviders == [answers |-> <<>>, sanctioned |-> FALSE]
NoRecords == [i \in OrderIds |-> None]
NoLists == [i \in OrderIds |-> <<>>]
DocumentIds == {"d1", "d2"}
NoOcrCall ==
    [pc |-> "idle", documentId |-> null, localPath |-> null, result |-> None,
     outcome |-> null, error |-> null]
NoOcr == [document |-> [d \in DocumentIds |-> None],
          calls |-> [c \in Callers |-> NoOcrCall]]

Order(id, counterpartyId, amount, paymentMethod, createdAt, status) ==
    [id |-> id, counterpartyId |-> counterpartyId, amount |-> amount,
     paymentMethod |-> paymentMethod, createdAt |-> createdAt, status |-> status]

Document(fileType, ocrText, ocrConfidence, status) ==
    [fileType |-> fileType, ocrText |-> ocrText,
     ocrConfidence |-> ocrConfidence, status |-> status]

ChatMessage(isFromUser, content) ==
    [isFromUser |-> isFromUser, content |-> content]

\* All sequences over S of length at most n.
SeqsUpTo(S, n) == UNION {[1..k -> S] : k \in 0..n}

(***************************************************************************)
(* The pure functions of the risk policy, applied to a factor list.        *)
(***************************************************************************)
PolicyScores == {0, 2, 5, 10, 12}
PolicyFactors ==
    {Factor("FACTOR", sev, sc) : sev \in Severities, sc \in PolicyScores}

InitPolicy ==
    /\ now = 0
    /\ orders = <<>>
    /\ documents = NoLists
    /\ chatMessages = NoLists
    /\ kycVerifications = NoRecords
    /\ riskAssessments = NoRecords
    /\ providers = NoProviders
    /\ arg \in SeqsUpTo(PolicyFactors, MaxFactors)
    /\ ret = NoCall
    /\ calls = NoCalls
    /\ riskAssessmentRows = <<>>
    /\ automation = NoAutomation
    /\ ocr = NoOcr

PolicyEvaluate ==
    /\ ret = NoCall
    /\ ret' = [op |-> "policy",
               factors |-> arg,
               overallScore |-> calculateOverallScore(arg),
               riskLevel |-> determineRiskLevel(calculateOverallScore(arg)),
               recommendation |->
                   determineRecommendation(calculateOverallScore(arg), arg)]
    /\ UNCHANGED <<now, inputs, inFlight, automation, kycVerifications, riskAssessments>>

NextPolicy == PolicyEvaluate

SpecPolicy == InitPolicy /\ [][NextPolicy]_vars

(***************************************************************************)
(* The KYC scorer, applied to a checklist and a number of reasons.         *)
(***************************************************************************)
Checklists ==
    [documentValid : BOOLEAN, faceMatch : BOOLEAN, livenessCheck : BOOLEAN,
     sanctionsCheck : BOOLEAN, addressVerification : BOOLEAN]

InitKycScore ==
    /\ now = 0
    /\ orders = <<>>
    /\ documents = NoLists
    /\ chatMessages = NoLists
    /\ kycVerifications = NoRecords
    /\ riskAssessments = NoRecords
    /\ providers = NoProviders
    /\ arg \in [checks : Checklists, n : 0..MaxReasons]
    /\ ret = NoCall
    /\ calls = NoCalls
    /\ riskAssessmentRows = <<>>
    /\ automation = NoAutomation
    /\ ocr = NoOcr

KycScoreEvaluate ==
    /\ ret = NoCall
    /\ ret' = [op |-> "calculateKYCScore",
               checks |-> arg.checks,
               n |-> arg.n,
               score |-> calculateKYCScore(
                   [NewKYCResult EXCEPT
                        !.checks = arg.checks,
                        !.riskFactors = [i \in 1..arg.n |-> ReasonOcrFailed]])]
    /\ UNCHANGED <<now, inputs, inFlight, automation, kycVerifications, riskAssessments>>

NextKycScore == KycScoreEvaluate

SpecKycScore == InitKycScore /\ [][NextKycScore]_vars

(***************************************************************************)
(* KYCService.verifyIdentity over a store of one order and its documents.  *)
(***************************************************************************)
BaseOrder == Order(1, "cp1", 100, "BANK_TRANSFER", 12, "PENDING")

DocIdCard == Document("ID_CARD", TextIdCard, Some(95), "PROCESSED")
DocIdCardNoText == Document("ID_CARD", null, None, "PENDING")
DocPassport == Document("PASSPORT", TextPassport, Some(95), "PROCESSED")
DocLicense == Document("DRIVERS_LICENSE", TextPlain, Some(95), "PROCESSED")
DocSelfie == Document("SELFIE", null, None, "PENDING")
DocKinds == {DocIdCard, DocIdCardNoText, DocPassport, DocLicense, DocSelfie}

\* The answers a provider can be asked for in a run over docs: a document
\* without OCR text is never validated, a face is matched only for a valid
\* document of an order with a selfie.  An answer nobody asks for is fixed
\* (the address provider, which would say yes, is one).
AnswersFor(document, docs) ==
    {a \in Answers :
         /\ a.address
         /\ document.ocrText = null => ~a.valid
         /\ (~a.valid \/ findSelfieDocument(docs) = None) => ~a.face /\ ~a.live}

ProviderChoices(docs) ==
    {[answers |-> as, sanctioned |-> sn] :
         as \in {f \in [1..Len(idDocuments(docs)) -> Answers] :
                     \A k \in DOMAIN f :
                         f[k] \in AnswersFor(docs[idDocuments(docs)[k]], docs)},
         sn \in BOOLEAN}

\* The faults a run over docs can be given: none when the try block is not
\* entered.
Faults(docs) ==
    IF Len(idDocuments(docs)) = 0 THEN {NoFault}
    ELSE {NoFault}
         \cup {[at |-> p, doc |-> 0] : p \in LateFaultPoints}
         \cup {[at |-> p, doc |-> k] :
                   p \in DocFaultPoints, k \in 1..Len(idDocuments(docs))}

InitKyc ==
    /\ now = 12
    /\ orders = <<BaseOrder>>
    /\ documents \in {[NoLists EXCEPT ![1] = d] : d \in SeqsUpTo(DocKinds, MaxDocs)}
    /\ chatMessages = NoLists
    /\ kycVerifications = NoRecords
    /\ riskAssessments = NoRecords
    /\ providers \in ProviderChoices(documents[1])
    /\ arg = <<>>
    /\ ret = NoCall
    /\ calls = NoCalls
    /\ riskAssessmentRows = <<>>
    /\ automation = NoAutomation
    /\ ocr = NoOcr

VerifyIdentity(orderId, fault) ==
    \E call \in {verifyIdentity(orderId, fault)} :
        /\ ret' = [op |-> "verifyIdentity", orderId |-> orderId, at |-> now,
                   outcome |-> call.outcome,
                   error |-> call.error, result |-> call.result,
                   thrown |-> call.thrown, thrownAt |-> call.thrownAt,
                   hit |-> call.hit,
                   scoredBeforeThrow |-> call.scoredBeforeThrow]
        /\ kycVerifications' =
               IF call.created = None THEN kycVerifications
               ELSE [kycVerifications EXCEPT ![orderId] = call.created]
        /\ UNCHANGED <<now, inputs, inFlight, automation, riskAssessments>>

NextKyc ==
    \E orderId \in OrderIds :
        \E fault \in Faults(IF orderId \in DOMAIN orders
                            THEN documents[orderId] ELSE <<>>) :
            VerifyIdentity(orderId, fault)

SpecKyc == InitKyc /\ [][NextKyc]_vars


(***************************************************************************)
(* RiskService.assessOrder over a store of up to MaxOrders orders, with    *)
(* the clock advancing between calls.  Time is in hours.  The stored KYC   *)
(* records are records verifyIdentity creates.                             *)
(***************************************************************************)
\* Date.now() at the first state, and the hours one Tick adds.
ClockStart == 1000
TickHours == 30

\* The order under assessment in the base store: small amount, bank transfer,
\* created at 11 o'clock five hours before ClockStart.
RiskBaseOrder == Order(1, "cp1", 100, "BANK_TRANSFER", 995, "PENDING")

AssessedOrders ==
    {Order(1, "cp1", amount, method, createdAt, status) :
         amount \in {100, 6000, 20000},
         method \in {"BANK_TRANSFER", "PAYPAL", "CASH"},
         createdAt \in {300, 987, 995},
         status \in {"PENDING", "DISPUTED"}}

OtherOrders ==
    {Order(2, cp, amount, "BANK_TRANSFER", createdAt, status) :
         cp \in {"cp1", "cp2"},
         amount \in {10, 100},
         createdAt \in {300, 990},
         status \in {"COMPLETED", "DISPUTED"}}

DocLowConfidence == Document("ID_CARD", TextIdCard, Some(50), "PROCESSED")
DocZeroConfidence == Document("ID_CARD", TextIdCard, Some(0), "PROCESSED")
DocFailed == Document("PASSPORT", null, None, "FAILED")
RiskDocKinds == {DocIdCard, DocLowConfidence, DocZeroConfidence, DocFailed}

MsgKinds ==
    {ChatMessage(TRUE, MsgPlain), ChatMessage(TRUE, MsgUrgent),
     ChatMessage(FALSE, MsgUrgent)}

\* Results verifyIdentity stores: approved at 0.90; under review at 0.55
\* (valid document, clean sanctions answer, no selfie); rejected at 0.55 on a
\* sanctions hit; rejected at 0 for a document without OCR text.
ResultApproved ==
    [NewKYCResult EXCEPT
         !.status = "APPROVED", !.score = 90,
         !.checks = [documentValid |-> TRUE, faceMatch |-> TRUE,
                     livenessCheck |-> TRUE, sanctionsCheck |-> TRUE,
                     addressVerification |-> FALSE],
         !.extractedData.fullName = "JOHN DOE DOB"]
ResultReview ==
    [NewKYCResult EXCEPT
         !.status = "REQUIRES_REVIEW", !.score = 55,
         !.checks = [documentValid |-> TRUE, faceMatch |-> FALSE,
                     livenessCheck |-> FALSE, sanctionsCheck |-> TRUE,
                     addressVerification |-> FALSE],
         !.extractedData.fullName = "JOHN DOE DOB"]
ResultSanctioned ==
    [NewKYCResult EXCEPT
         !.status = "REJECTED", !.score = 55,
         !.checks = [documentValid |-> TRUE, faceMatch |-> TRUE,
                     livenessCheck |-> TRUE, sanctionsCheck |-> FALSE,
                     addressVerification |-> FALSE],
         !.extractedData.fullName = "JOHN DOE DOB",
         !.riskFactors = <<ReasonSanctioned>>]
ResultNoText ==
    [NewKYCResult EXCEPT
         !.status = "REJECTED", !.score = 0,
         !.riskFactors = <<ReasonOcrFailed, ReasonNoName>>]
StoredKyc ==
    {None} \cup {Some(KycRecord(r)) :
                     r \in {ResultApproved, ResultReview, ResultSanctioned,
                            ResultNoText}}

\* Records the KycVerification type admits that verifyIdentity does not
\* write: a verification in progress, with a stored score of 0 or 0.40.
InProgressKyc ==
    {Some([KycRecord(ResultReview) EXCEPT !.status = "IN_PROGRESS",
                                          !.riskScore = s]) : s \in {0, 40}}

\* The stores of the model: every assessed order with every second order
\* around base documents, messages and KYC record, every combination of
\* documents, messages and KYC record around the base order, and every
\* assessed order alone with every KYC record, and the base order with a
\* verification in progress.
OrderStores ==
    {<<o>> : o \in AssessedOrders}
    \cup {<<o, p>> : o \in AssessedOrders, p \in OtherOrders}

InitRisk ==
    /\ now = ClockStart
    /\ \/ /\ orders \in OrderStores
          /\ documents = [NoLists EXCEPT ![1] = <<DocIdCard>>]
          /\ chatMessages = [NoLists EXCEPT ![1] = <<ChatMessage(TRUE, MsgPlain)>>]
          /\ kycVerifications = [NoRecords EXCEPT ![1] = Some(KycRecord(ResultApproved))]
       \/ /\ orders = <<RiskBaseOrder>>
          /\ documents \in {[NoLists EXCEPT ![1] = d] :
                                d \in SeqsUpTo(RiskDocKinds, MaxDocs)}
          /\ chatMessages \in {[NoLists EXCEPT ![1] = m] :
                                   m \in SeqsUpTo(MsgKinds, MaxMsgs)}
          /\ kycVerifications \in {[NoRecords EXCEPT ![1] = k] : k \in StoredKyc}
       \/ /\ orders \in {<<o>> : o \in AssessedOrders}
          /\ documents = [NoLists EXCEPT ![1] = <<DocIdCard>>]
          /\ chatMessages = [NoLists EXCEPT ![1] = <<ChatMessage(TRUE, MsgPlain)>>]
          /\ kycVerifications \in {[NoRecords EXCEPT ![1] = k] : k \in StoredKyc}
       \/ /\ orders = <<RiskBaseOrder>>
          /\ documents = [NoLists EXCEPT ![1] = <<DocIdCard>>]
          /\ chatMessages = [NoLists EXCEPT ![1] = <<ChatMessage(TRUE, MsgPlain)>>]
          /\ kycVerifications \in {[NoRecords EXCEPT ![1] = k] : k \in InProgressKyc}
    /\ riskAssessments = NoRecords
    /\ providers = NoProviders
    /\ arg = <<>>
    /\ ret = NoCall
    /\ calls = NoCalls
    /\ riskAssessmentRows = <<>>
    /\ automation = NoAutomation
    /\ ocr = NoOcr

\* Time passes between two calls.
Tick ==
    /\ now < ClockStart + MaxTicks * TickHours
    /\ now' = now + TickHours
    /\ UNCHANGED <<inputs, inFlight, automation, kycVerifications, riskAssessments, ret>>

\* The result of the call before this one, when that was a successful
\* assessOrder of the same order (only the clock moved in between).
previousAssessment(orderId) ==
    IF ret.op = "assessOrder" /\ ret.orderId = orderId /\ ret.outcome = "ok"
    THEN Some([at |-> ret.at, result |-> ret.result])
    ELSE None

\* The lookup faults a call can meet: the order is read first, and of an
\* unknown order nothing else is read.
LookupFaults(orderId) ==
    IF orderId \in DOMAIN orders THEN LookupPoints \cup {"none"} ELSE {"none"}

\* Whether the call before this one was a verifyIdentity of the same order
\* that returned through its catch block.
followsGuardedVerification(orderId) ==
    /\ ret.op = "verifyIdentity"
    /\ ret.orderId = orderId
    /\ ret.outcome = "ok"
    /\ ret.thrown

AssessOrder(orderId, fault) ==
    \E call \in {assessOrder(orderId, fault)} :
        /\ ret' = [op |-> "assessOrder", orderId |-> orderId, at |-> now,
                   lookupFailed |-> fault \in LookupPoints,
                   outcome |-> call.outcome, error |-> call.error,
                   result |-> call.result,
                   previous |-> previousAssessment(orderId),
                   followsGuarded |-> followsGuardedVerification(orderId)]
        /\ riskAssessments' =
               IF call.upserted = None THEN riskAssessments
               ELSE [riskAssessments EXCEPT ![orderId] = call.upserted]
        /\ UNCHANGED <<now, inputs, inFlight, automation, kycVerifications>>

NextRisk ==
    \/ Tick
    \/ \E orderId \in OrderIds : \E fault \in LookupFaults(orderId) :
           AssessOrder(orderId, fault)

SpecRisk == InitRisk /\ [][NextRisk]_vars

(***************************************************************************)
(* Concurrent calls of assessOrder (SpecUpsert).  A call reads the store   *)
(* and computes its result, and later runs its store step; the steps of    *)
(* different callers interleave and the clock moves in between.  The       *)
(* stored data the assessors read does not change here, so the reads of    *)
(* one call are taken together; the upsert is one statement of the         *)
(* database.                                                               *)
(***************************************************************************)
UpsertStores ==
    {<<RiskBaseOrder, p>> :
         p \in {o \in OtherOrders : o.amount = 10 /\ o.createdAt = 300}}

InitUpsert ==
    /\ now = ClockStart
    /\ orders \in UpsertStores
    /\ documents = [NoLists EXCEPT ![1] = <<DocIdCard>>]
    /\ chatMessages = [NoLists EXCEPT ![1] = <<ChatMessage(TRUE, MsgPlain)>>]
    /\ kycVerifications = [NoRecords EXCEPT ![1] = Some(KycRecord(ResultApproved))]
    /\ riskAssessments = NoRecords
    /\ providers = NoProviders
    /\ arg = <<>>
    /\ ret = NoCall
    /\ calls = NoCalls
    /\ riskAssessmentRows = <<>>
    /\ automation = NoAutomation
    /\ ocr = NoOcr

\* assessOrder up to its store step: the order is found and the result is
\* computed from what the store and the clock hold.
AssessBegin(c, orderId) ==
    /\ calls[c].pc \in {"idle", "done"}
    /\ orderId \in DOMAIN orders
    /\ \E call \in {assessOrder(orderId, "none")} :
           calls' = [calls EXCEPT ![c] = [pc |-> "store", orderId |-> orderId,
                                          at |-> now, result |-> call.result]]
    /\ UNCHANGED <<now, inputs, kycVerifications, riskAssessments, ret,
                   riskAssessmentRows, automation, ocr>>

\* The store step of a call: storeAssessment upserts the call's result.
StoreStep(c) ==
    /\ calls[c].pc = "store"
    /\ riskAssessmentRows' = upsert(riskAssessmentRows,
                                    storeAssessment(calls[c].result))
    /\ calls' = [calls EXCEPT ![c].pc = "done"]
    /\ ret' = [op |-> "storeAssessment", caller |-> c,
               orderId |-> calls[c].orderId]
    /\ UNCHANGED <<now, inputs, kycVerifications, riskAssessments, automation,
                   ocr>>

NextUpsert ==
    \/ Tick
    \/ \E c \in Callers : \E orderId \in OrderIds : AssessBegin(c, orderId)
    \/ \E c \in Callers : StoreStep(c)

SpecUpsert == InitUpsert /\ [][NextUpsert]_vars

(***************************************************************************)
(* BrowserAutomationService (SpecBrowser).  a is the automation state: the *)
(* sessions map, the tables p2POrder, chatMessage, document and auditLog,  *)
(* the events emitted, and the two things the service is said never to     *)
(* touch: the chatReply table and the messages sent into the P2P chat.     *)
(***************************************************************************)
logAuditEvent(a, action, details) ==
    [a EXCEPT !.auditLog = Append(@, [action |-> action, details |-> details,
                                      timestamp |-> now])]

\* No handler is registered (onEvent is not called by the service); the
\* event's timestamp is left out.
emitEvent(a, type, data) ==
    [a EXCEPT !.events = Append(@, [type |-> type, orderId |-> data.orderId])]

\* The reply steps of the workflows are placeholders with empty bodies.
generateGreetingReply(a, orderId) == a

MutReplyDraftSends(a, messageId) ==
    [a EXCEPT !.chatReply = Append(@, [messageId |-> messageId,
                                       status |-> "SENT"]),
              !.sentMessages = Append(@, messageId)]

generateReplyDraft(a, messageId) == a

\* startRiskAssessment has an empty body.
triggerOrderWorkflows(a, orderId) ==
    logAuditEvent(generateGreetingReply(a, orderId),
                  "ORDER_WORKFLOW_STARTED", [orderId |-> orderId])

\* analyzeMessageContent and updateOrderFromMessage have empty bodies.
triggerMessageWorkflows(a, messageId) ==
    IF messageId \notin DOMAIN a.chatMessage THEN a
    ELSE generateReplyDraft(a, messageId)

\* startOCRProcessing, startKYCExtraction and updateRiskAssessment have empty
\* bodies.
triggerDocumentWorkflows(a, documentId) == a

downloadDocument(url, filename) == <<"/documents/", filename>>

\* Row ids are the positions in the tables.
processDetectedOrder(a, orderData, operatorId) ==
    IF \E i \in DOMAIN a.p2POrder :
           a.p2POrder[i].binanceOrderId = orderData.binanceOrderId
    THEN a
    ELSE emitEvent(
             triggerOrderWorkflows(
                 [a EXCEPT !.p2POrder =
                      Append(@, [binanceOrderId |-> orderData.binanceOrderId,
                                 amount |-> orderData.amount,
                                 counterpartyId |-> orderData.counterpartyId,
                                 status |-> "PENDING",
                                 operatorId |-> operatorId])],
                 Len(a.p2POrder) + 1),
             "ORDER_DETECTED", [orderId |-> Len(a.p2POrder) + 1])

processDetectedMessage(a, messageData) ==
    emitEvent(
        triggerMessageWorkflows(
            [a EXCEPT !.chatMessage =
                 Append(@, [orderId |-> messageData.orderId,
                            content |-> messageData.content,
                            isFromUser |-> messageData.isFromCounterparty,
                            isProcessed |-> FALSE])],
            Len(a.chatMessage) + 1),
        "MESSAGE_RECEIVED", [orderId |-> messageData.orderId])

processDetectedDocument(a, docData) ==
    emitEvent(
        triggerDocumentWorkflows(
            [a EXCEPT !.document =
                 Append(@, [orderId |-> docData.orderId,
                            filename |-> docData.filename,
                            localPath |-> downloadDocument(docData.url,
                                                           docData.filename),
                            fileType |-> docData.fileType,
                            status |-> "PENDING"])],
            Len(a.document) + 1),
        "DOCUMENT_UPLOADED", [orderId |-> docData.orderId])

\* The scans are placeholders that find nothing.
scanForNewOrders(session) == <<>>
scanForNewMessages(session) == <<>>
scanForNewDocuments(session) == <<>>

RECURSIVE processOrders(_, _, _)
processOrders(a, detectedOrders, operatorId) ==
    IF detectedOrders = <<>> THEN a
    ELSE processOrders(processDetectedOrder(a, Head(detectedOrders), operatorId),
                       Tail(detectedOrders), operatorId)

RECURSIVE processMessages(_, _)
processMessages(a, detectedMessages) ==
    IF detectedMessages = <<>> THEN a
    ELSE processMessages(processDetectedMessage(a, Head(detectedMessages)),
                         Tail(detectedMessages))

RECURSIVE processDocuments(_, _)
processDocuments(a, detectedDocuments) ==
    IF detectedDocuments = <<>> THEN a
    ELSE processDocuments(processDetectedDocument(a, Head(detectedDocuments)),
                          Tail(detectedDocuments))

\* this.sessions.get(sessionId): the sessions of the map with the id, at most
\* one since the map is keyed by it.
SessionsWith(a, sessionId) == {s \in a.sessions : s.id = sessionId}

detectP2POrders(a, sessionId) ==
    IF SessionsWith(a, sessionId) = {} THEN a
    ELSE LET session == CHOOSE s \in SessionsWith(a, sessionId) : TRUE
         IN  processOrders(a, scanForNewOrders(session), session.operatorId)

detectChatMessages(a, sessionId) ==
    IF SessionsWith(a, sessionId) = {} THEN a
    ELSE processMessages(a, scanForNewMessages(sessionId))

detectDocumentUploads(a, sessionId) ==
    IF SessionsWith(a, sessionId) = {} THEN a
    ELSE processDocuments(a, scanForNewDocuments(sessionId))

updateOrderStatus(a, sessionId) ==
    IF SessionsWith(a, sessionId) = {} THEN a
    ELSE \* processStatusUpdate, run on each change found, has an empty body
         a

\* One run of the monitoring interval's callback.
monitoringInterval(a, sessionId) ==
    LET detected == updateOrderStatus(
                        detectDocumentUploads(
                            detectChatMessages(detectP2POrders(a, sessionId),
                                               sessionId),
                            sessionId),
                        sessionId)
    IN  [detected EXCEPT !.sessions =
             {IF s.id = sessionId THEN [s EXCEPT !.lastActivity = now] ELSE s :
                  s \in @}]

Operators == {"op1"}
DetectedOrders ==
    {[binanceOrderId |-> b, amount |-> 100, counterpartyId |-> "cp1"] :
         b \in {"B1"}}
DetectedMessages ==
    {[orderId |-> 1, content |-> MsgPlain, isFromCounterparty |-> f] :
         f \in BOOLEAN}
DetectedDocuments ==
    {[orderId |-> 1, filename |-> "id.png", url |-> "chat/id.png",
      fileType |-> "ID_CARD"]}

InitBrowser ==
    /\ now = ClockStart
    /\ orders = <<>>
    /\ documents = NoLists
    /\ chatMessages = NoLists
    /\ kycVerifications = NoRecords
    /\ riskAssessments = NoRecords
    /\ providers = NoProviders
    /\ arg = <<>>
    /\ ret = NoCall
    /\ calls = NoCalls
    /\ riskAssessmentRows = <<>>
    /\ automation = NoAutomation
    /\ ocr = NoOcr

others == <<now, inputs, inFlight, kycVerifications, riskAssessments, ret>>

\* The session id is made of the clock and the operator; a second session
\* with the same id replaces the first in the map.
InitializeSession(operatorId) ==
    /\ automation' =
           [automation EXCEPT !.sessions =
                {s \in @ : s.id # <<now, operatorId>>}
                \cup {[id |-> <<now, operatorId>>, operatorId |-> operatorId,
                       status |-> "ACTIVE", lastActivity |-> now]}]
    /\ UNCHANGED others

MonitoringTick(sessionId) ==
    /\ SessionsWith(automation, sessionId) # {}
    /\ automation' = monitoringInterval(automation, sessionId)
    /\ UNCHANGED others

\* The handlers the detection steps run on what a scan finds.
DetectedOrder(orderData, operatorId) ==
    /\ Len(automation.events) < MaxDetections
    /\ automation' = processDetectedOrder(automation, orderData, operatorId)
    /\ UNCHANGED others

DetectedMessage(messageData) ==
    /\ Len(automation.events) < MaxDetections
    /\ automation' = processDetectedMessage(automation, messageData)
    /\ UNCHANGED others

DetectedDocument(docData) ==
    /\ Len(automation.events) < MaxDetections
    /\ automation' = processDetectedDocument(automation, docData)
    /\ UNCHANGED others

TerminateSession(sessionId) ==
    /\ SessionsWith(automation, sessionId) # {}
    /\ automation' = [automation EXCEPT !.sessions =
                          {s \in @ : s.id # sessionId}]
    /\ UNCHANGED others

SessionIds == {s.id : s \in automation.sessions}

NextBrowser ==
    \/ Tick
    \/ \E operatorId \in Operators : InitializeSession(operatorId)
    \/ \E sessionId \in SessionIds : MonitoringTick(sessionId)
    \/ \E orderData \in DetectedOrders : \E operatorId \in Operators :
           DetectedOrder(orderData, operatorId)
    \/ \E messageData \in DetectedMessages : DetectedMessage(messageData)
    \/ \E docData \in DetectedDocuments : DetectedDocument(docData)
    \/ \E sessionId \in SessionIds : TerminateSession(sessionId)

SpecBrowser == InitBrowser /\ [][NextBrowser]_vars

(***************************************************************************)
(* Concurrent calls of processDetectedOrder (SpecDetect).  Every monitoring *)
(* tick of every session runs detectP2POrders, and a tick can start while   *)
(* an earlier one is still awaiting, so calls for the same binanceOrderId   *)
(* overlap.  A call is a sequence of awaited statements: findUnique, create,*)
(* triggerOrderWorkflows, and then emitEvent; binanceOrderId is a unique    *)
(* key of p2POrder, so a create of a second row with it rejects, and the    *)
(* call's catch block logs the error and ends the call.                     *)
(***************************************************************************)
RacedOrders ==
    {[binanceOrderId |-> b, amount |-> 100, counterpartyId |-> "cp1"] :
         b \in {"B1", "B2"}}

\* A row stored before any call, detected earlier by another operator.
ExistingOrder ==
    [binanceOrderId |-> "B1", amount |-> 100, counterpartyId |-> "cp1",
     status |-> "PENDING", operatorId |-> "op0"]

\* prisma.p2POrder.findUnique({ where: { binanceOrderId } }): whether a row
\* is found.
findUnique(a, binanceOrderId) ==
    \E i \in DOMAIN a.p2POrder : a.p2POrder[i].binanceOrderId = binanceOrderId

MutCreateWithoutKey(a, orderData, operatorId) ==
    [rejected |-> FALSE,
     a |-> [a EXCEPT !.p2POrder =
                Append(@, [binanceOrderId |-> orderData.binanceOrderId,
                           amount |-> orderData.amount,
                           counterpartyId |-> orderData.counterpartyId,
                           status |-> "PENDING",
                           operatorId |-> operatorId])],
     id |-> Len(a.p2POrder) + 1]

\* prisma.p2POrder.create: rejects on a second row with the binanceOrderId.
createOrder(a, orderData, operatorId) ==
    IF findUnique(a, orderData.binanceOrderId)
    THEN [rejected |-> TRUE, a |-> a, id |-> 0]
    ELSE [rejected |-> FALSE,
          a |-> [a EXCEPT !.p2POrder =
                     Append(@, [binanceOrderId |-> orderData.binanceOrderId,
                                amount |-> orderData.amount,
                                counterpartyId |-> orderData.counterpartyId,
                                status |-> "PENDING",
                                operatorId |-> operatorId])],
          id |-> Len(a.p2POrder) + 1]

InitDetect ==
    /\ now = ClockStart
    /\ orders = <<>>
    /\ documents = NoLists
    /\ chatMessages = NoLists
    /\ kycVerifications = NoRecords
    /\ riskAssessments = NoRecords
    /\ providers = NoProviders
    /\ arg = <<>>
    /\ ret = NoCall
    /\ calls = NoCalls
    /\ riskAssessmentRows = <<>>
    /\ automation \in {[NoAutomation EXCEPT !.p2POrder = t] :
                           t \in {<<>>, <<ExistingOrder>>}}
    /\ ocr = NoOcr

detectOthers == <<now, inputs, riskAssessmentRows, ocr, kycVerifications,
                  riskAssessments, ret>>

\* The start of a call and its findUnique: with a row found the call returns.
DetectFindUnique(c, orderData, operatorId) ==
    /\ calls[c].pc \in {"idle", "done"}
    /\ calls' = [calls EXCEPT ![c] =
                    [pc |-> IF findUnique(automation, orderData.binanceOrderId)
                            THEN "done" ELSE "create",
                     orderData |-> orderData, operatorId |-> operatorId,
                     orderId |-> 0,
                     outcome |-> IF findUnique(automation,
                                               orderData.binanceOrderId)
                                 THEN "existing" ELSE null]]
    /\ UNCHANGED <<automation, detectOthers>>

\* The create of a call: the row is stored, or the create rejects and the
\* catch block ends the call.
DetectCreate(c) ==
    /\ calls[c].pc = "create"
    /\ \E created \in {createOrder(automation, calls[c].orderData,
                                    calls[c].operatorId)} :
           /\ automation' = created.a
           /\ calls' = [calls EXCEPT ![c].pc = IF created.rejected THEN "done"
                                               ELSE "workflows",
                                     ![c].orderId = created.id,
                                     ![c].outcome = IF created.rejected
                                                    THEN "rejected" ELSE null]
    /\ UNCHANGED detectOthers

\* await this.triggerOrderWorkflows(order.id)
DetectWorkflows(c) ==
    /\ calls[c].pc = "workflows"
    /\ automation' = triggerOrderWorkflows(automation, calls[c].orderId)
    /\ calls' = [calls EXCEPT ![c].pc = "emit"]
    /\ UNCHANGED detectOthers

\* this.emitEvent('ORDER_DETECTED', ...) and the end of the call.
DetectEmit(c) ==
    /\ calls[c].pc = "emit"
    /\ automation' = emitEvent(automation, "ORDER_DETECTED",
                               [orderId |-> calls[c].orderId])
    /\ calls' = [calls EXCEPT ![c].pc = "done", ![c].outcome = "detected"]
    /\ UNCHANGED detectOthers

NextDetect ==
    \/ \E c \in Callers : \E orderData \in RacedOrders :
           \E operatorId \in Operators : DetectFindUnique(c, orderData, operatorId)
    \/ \E c \in Callers : DetectCreate(c)
    \/ \E c \in Callers : DetectWorkflows(c)
    \/ \E c \in Callers : DetectEmit(c)

SpecDetect == InitDetect /\ [][NextDetect]_vars

(***************************************************************************)
(* OCRService.processDocument (SpecOcr).  A call is a sequence of awaited   *)
(* statements: the findUnique and its guard, the update to PROCESSING, the  *)
(* primary and the backup performOCR, the update that stores the result,    *)
(* and the update of the catch block.  The statements of different calls    *)
(* interleave.  performOCR is a provider: it answers with a text and a      *)
(* confidence or throws.  An update is a statement of the database: it      *)
(* is applied or it rejects.                                                *)
(***************************************************************************)
OCR_BACKUP_BELOW == 80

OcrText == "Sample OCR text from document"
OcrConfidences == {60, 75, 95}
OcrThrow == [thrown |-> TRUE, text |-> null, confidence |-> 0]
OCRResult(text, confidence) ==
    [thrown |-> FALSE, text |-> text, confidence |-> confidence]

\* What performOCR can do: return a result or throw.
performOCR == {OCRResult(OcrText, c) : c \in OcrConfidences} \cup {OcrThrow}

\* What a statement of the database can do.
Statement == {"applied", "rejected"}

\* A row of prisma.document, as far as processDocument reads and writes it.
OcrDocument(localPath, status) ==
    [localPath |-> localPath, status |-> status, ocrText |-> null,
     ocrConfidence |-> None]

\* prisma.document.update({ where: { id }, data }) for the data of the three
\* updates of processDocument.
updateStatus(table, documentId, status) ==
    [table EXCEPT ![documentId] = Some([table[documentId][1]
                                            EXCEPT !.status = status])]

updateResult(table, documentId, result) ==
    [table EXCEPT ![documentId] =
         Some([table[documentId][1] EXCEPT !.ocrText = result.text,
                                           !.ocrConfidence = Some(result.confidence),
                                           !.status = "PROCESSED"])]

\* The end of a call: a returned result or a thrown error.
OcrReturned(call, result) ==
    [call EXCEPT !.pc = "done", !.outcome = "ok", !.result = Some(result)]

OcrThrown(call, error) ==
    [call EXCEPT !.pc = "done", !.outcome = "error", !.error = error,
                 !.result = None]

\* The stores: document d1 is downloaded and pending or already failed,
\* document d2 is missing or stored without a local path.
OcrStores ==
    {[d \in DocumentIds |-> IF d = "d1" THEN Some(OcrDocument("/documents/d1", s))
                            ELSE other] :
         s \in {"PENDING", "FAILED"},
         other \in {None, Some(OcrDocument(null, "PENDING"))}}

InitOcr ==
    /\ now = ClockStart
    /\ orders = <<>>
    /\ documents = NoLists
    /\ chatMessages = NoLists
    /\ kycVerifications = NoRecords
    /\ riskAssessments = NoRecords
    /\ providers = NoProviders
    /\ arg = <<>>
    /\ ret = NoCall
    /\ calls = NoCalls
    /\ riskAssessmentRows = <<>>
    /\ automation = NoAutomation
    /\ ocr \in {[document |-> t, calls |-> NoOcr.calls] : t \in OcrStores}

ocrOthers == <<now, inputs, calls, riskAssessmentRows, automation,
               kycVerifications, riskAssessments, ret>>

\* findUnique and the guard on the document and its localPath.
ProcessDocumentBegin(c, documentId) ==
    /\ ocr.calls[c].pc \in {"idle", "done"}
    /\ LET document == ocr.document[documentId]
           call == [NoOcrCall EXCEPT !.documentId = documentId]
       IN  ocr' = [ocr EXCEPT !.calls[c] =
                      IF document = None \/ document[1].localPath = null
                      THEN OcrThrown(call, "Document not found or not downloaded")
                      ELSE [call EXCEPT !.pc = "processing",
                                        !.localPath = document[1].localPath]]
    /\ UNCHANGED ocrOthers

\* The update to PROCESSING, before the try block: when it rejects the call
\* ends with its error.
UpdateProcessing(c, statement) ==
    /\ ocr.calls[c].pc = "processing"
    /\ ocr' = IF statement = "applied"
              THEN [ocr EXCEPT !.document = updateStatus(@, ocr.calls[c].documentId,
                                                         "PROCESSING"),
                               !.calls[c].pc = "primary"]
              ELSE [ocr EXCEPT !.calls[c] = OcrThrown(@, "update rejected")]
    /\ UNCHANGED ocrOthers

\* performOCR(localPath, 'primary') and the test of its confidence.
PerformOCRPrimary(c, answer) ==
    /\ ocr.calls[c].pc = "primary"
    /\ ocr' = [ocr EXCEPT !.calls[c] =
                  IF answer.thrown
                  THEN [@ EXCEPT !.pc = "catch", !.error = "OCR failed"]
                  ELSE [@ EXCEPT !.pc = IF answer.confidence < OCR_BACKUP_BELOW
                                        THEN "backup" ELSE "store",
                                 !.result = Some(answer)]]
    /\ UNCHANGED ocrOthers

\* performOCR(localPath, 'backup'): the backup result replaces the primary
\* one when its confidence is higher.
PerformOCRBackup(c, answer) ==
    /\ ocr.calls[c].pc = "backup"
    /\ ocr' = [ocr EXCEPT !.calls[c] =
                  IF answer.thrown
                  THEN [@ EXCEPT !.pc = "catch", !.error = "OCR failed"]
                  ELSE [@ EXCEPT !.pc = "store",
                                 !.result = IF answer.confidence > @[1].confidence
                                            THEN Some(answer) ELSE @]]
    /\ UNCHANGED ocrOthers

\* The update that stores the result, followed by return result; when it
\* rejects, control passes to the catch block with its error.
StoreResults(c, statement) ==
    /\ ocr.calls[c].pc = "store"
    /\ ocr' = IF statement = "applied"
              THEN [ocr EXCEPT !.document = updateResult(@, ocr.calls[c].documentId,
                                                         ocr.calls[c].result[1]),
                               !.calls[c] = OcrReturned(@, @.result[1])]
              ELSE [ocr EXCEPT !.calls[c].pc = "catch",
                               !.calls[c].error = "update rejected"]
    /\ UNCHANGED ocrOthers

\* The catch block: the update to FAILED, then throw error; when the update
\* rejects the call ends with the update's error and nothing is written.
CatchUpdateFailed(c, statement) ==
    /\ ocr.calls[c].pc = "catch"
    /\ ocr' = IF statement = "applied"
              THEN [ocr EXCEPT !.document = updateStatus(@, ocr.calls[c].documentId,
                                                         "FAILED"),
                               !.calls[c] = OcrThrown(@, @.error)]
              ELSE [ocr EXCEPT !.calls[c] = OcrThrown(@, "update rejected")]
    /\ UNCHANGED ocrOthers

NextOcr ==
    \/ \E c \in Callers : \E documentId \in DocumentIds :
           ProcessDocumentBegin(c, documentId)
    \/ \E c \in Callers : \E statement \in Statement :
           UpdateProcessing(c, statement)
    \/ \E c \in Callers : \E answer \in performOCR : PerformOCRPrimary(c, answer)
    \/ \E c \in Callers : \E answer \in performOCR : PerformOCRBackup(c, answer)
    \/ \E c \in Callers : \E statement \in Statement : StoreResults(c, statement)
    \/ \E c \in Callers : \E statement \in Statement :
           CatchUpdateFailed(c, statement)

SpecOcr == InitOcr /\ [][NextOcr]_vars

(***************************************************************************)
(* Both services over one order and its documents.                         *)
(***************************************************************************)
StoreDocKinds == {DocIdCard, DocSelfie}

Init ==
    /\ now = ClockStart
    /\ orders = <<RiskBaseOrder>>
    /\ documents \in {[NoLists EXCEPT ![1] = d] :
                          d \in SeqsUpTo(StoreDocKinds, MaxDocs)}
    /\ chatMessages = [NoLists EXCEPT ![1] = <<ChatMessage(TRUE, MsgPlain)>>]
    /\ kycVerifications = NoRecords
    /\ riskAssessments = NoRecords
    /\ providers \in ProviderChoices(documents[1])
    /\ arg = <<>>
    /\ ret = NoCall
    /\ calls = NoCalls
    /\ riskAssessmentRows = <<>>
    /\ automation = NoAutomation
    /\ ocr = NoOcr

\* The faults given to verifyIdentity next to assessOrder: none, a failing
\* validateDocument on the first identity document, a failing create.
StoreFaults(docs) ==
    Faults(docs) \cap {NoFault, [at |-> "validateDocument", doc |-> 1],
                       [at |-> "create", doc |-> 0]}

Next ==
    \/ Tick
    \/ \E orderId \in OrderIds : \E fault \in LookupFaults(orderId) :
           AssessOrder(orderId, fault)
    \/ \E orderId \in OrderIds :
           \E fault \in StoreFaults(IF orderId \in DOMAIN orders
                                    THEN documents[orderId] ELSE <<>>) :
               VerifyIdentity(orderId, fault)

Spec == Init /\ [][Next]_vars

(***************************************************************************)
(* Properties of the risk policy (SpecPolicy).                             *)
(***************************************************************************)
HasSeverity(factors, severity) ==
    \E i \in DOMAIN factors : factors[i].severity = severity

\* C1: whenever the factor list given to the recommendation policy holds at
\* least one CRITICAL factor, the recommendation is REJECT, whatever the
\* overall score and the other factors are.
C1_CriticalForcesReject ==
    (ret.op = "policy" /\ HasSeverity(ret.factors, "CRITICAL"))
        => ret.recommendation = "REJECT"

\* A CRITICAL factor next to a HIGH one and a LOW one, with an overall score
\* that alone would auto-approve.
C1_Witness ==
    /\ ret.op = "policy"
    /\ HasSeverity(ret.factors, "CRITICAL")
    /\ HasSeverity(ret.factors, "HIGH")
    /\ HasSeverity(ret.factors, "LOW")
    /\ FracLe(ret.overallScore, AUTO_APPROVE_THRESHOLD)
    /\ ret.recommendation = "REJECT"

\* The weights as the property states them, in tenths.
StatedWeight(severity) ==
    CASE severity = "LOW" -> 1
      [] severity = "MEDIUM" -> 3
      [] severity = "HIGH" -> 6
      [] severity = "CRITICAL" -> 10

RECURSIVE SumTo(_, _)
\* f[1] + ... + f[n]
SumTo(f, n) == IF n = 0 THEN 0 ELSE f[n] + SumTo(f, n - 1)

StatedWeightedSum(factors) ==
    SumTo([i \in DOMAIN factors |->
               factors[i].score * StatedWeight(factors[i].severity)],
          Len(factors))

StatedWeightSum(factors) ==
    SumTo([i \in DOMAIN factors |-> StatedWeight(factors[i].severity)],
          Len(factors))

ScoresInUnitInterval(factors) ==
    \A i \in DOMAIN factors : factors[i].score \in 0..10

\* C3: for a factor list whose scores lie in [0,1], the overall score is the
\* severity-weighted mean sum(score * weight) / sum(weight) with the weights
\* 0.1, 0.3, 0.6 and 1.0, it lies in [0,1], and it is exactly 0 for the empty
\* list.
C3_WeightedMean ==
    (ret.op = "policy" /\ ScoresInUnitInterval(ret.factors)) =>
        /\ ret.overallScore.den > 0
        /\ ret.overallScore.num * StatedWeightSum(ret.factors)
               = StatedWeightedSum(ret.factors) * ret.overallScore.den
        /\ ret.overallScore.num >= 0
        /\ ret.overallScore.num <= 10 * ret.overallScore.den
        /\ (ret.factors = <<>> => ret.overallScore.num = 0)

\* Three factors of three severities whose mean is strictly inside (0,1) and
\* differs from the unweighted mean: LOW 0.2, HIGH 1.0 and CRITICAL 0.5 give
\* 11.2/17 rather than 17/30.
C3_Witness ==
    /\ ret.op = "policy"
    /\ ret.factors = <<Factor("FACTOR", "LOW", 2), Factor("FACTOR", "HIGH", 10),
                       Factor("FACTOR", "CRITICAL", 5)>>
    /\ ret.overallScore = Fraction(112, 17)

\* C11: for a factor list without CRITICAL factor the recommendation is
\* AUTO_APPROVE if and only if no factor is HIGH and the overall score is at
\* most 0.2, and MANUAL_REVIEW in every other case.
C11_AutoApproveIff ==
    (ret.op = "policy" /\ ~HasSeverity(ret.factors, "CRITICAL")) =>
        /\ ret.recommendation = "AUTO_APPROVE"
               <=> /\ ~HasSeverity(ret.factors, "HIGH")
                   /\ ret.overallScore.num <= 2 * ret.overallScore.den
        /\ ret.recommendation \in {"AUTO_APPROVE", "MANUAL_REVIEW"}

\* A MEDIUM factor of score 0 and a LOW factor of score 0.2: the overall
\* score 0.05 is positive and below 0.2, and the list is auto-approved.
C11_Witness ==
    /\ ret.op = "policy"
    /\ ret.factors = <<Factor("FACTOR", "MEDIUM", 0), Factor("FACTOR", "LOW", 2)>>
    /\ ret.overallScore = Fraction(2, 4)
    /\ ret.recommendation = "AUTO_APPROVE"

\* The risk level as the cut points 0.3, 0.6 and 0.8 give it.
StatedRiskLevel(score) ==
    IF score.num < 3 * score.den THEN "LOW"
    ELSE IF score.num < 6 * score.den THEN "MEDIUM"
    ELSE IF score.num < 8 * score.den THEN "HIGH"
    ELSE "CRITICAL"

\* C12: for every overall score in [0,1] the risk level is LOW below 0.3,
\* MEDIUM from 0.3 to below 0.6, HIGH from 0.6 to below 0.8 and CRITICAL from
\* 0.8 on.
C12_RiskLevelCutPoints ==
    (/\ ret.op = "policy"
     /\ ret.overallScore.num >= 0
     /\ ret.overallScore.num <= 10 * ret.overallScore.den)
        => ret.riskLevel = StatedRiskLevel(ret.overallScore)

(***************************************************************************)
(* Properties of the KYC scorer (SpecKycScore).                            *)
(***************************************************************************)
\* The sum of the weights of the true checks as the property states them,
\* in hundredths.
StatedChecksSum(checks) ==
    (IF checks.documentValid THEN 30 ELSE 0)
    + (IF checks.faceMatch THEN 20 ELSE 0)
    + (IF checks.livenessCheck THEN 15 ELSE 0)
    + (IF checks.sanctionsCheck THEN 25 ELSE 0)
    + (IF checks.addressVerification THEN 10 ELSE 0)

\* C4: for every checklist and every number n of reasons the KYC score is
\* max(0, sum of the weights of the true checks - 0.1 * n), and so never
\* negative.
C4_ScoreFloored ==
    ret.op = "calculateKYCScore" =>
        /\ ret.score >= 0
        /\ ret.score = IF StatedChecksSum(ret.checks) - 10 * ret.n >= 0
                       THEN StatedChecksSum(ret.checks) - 10 * ret.n
                       ELSE 0

\* Passed checks worth 0.45 against six reasons: the penalty exceeds the sum.
C4_Witness ==
    /\ ret.op = "calculateKYCScore"
    /\ ret.checks.documentValid /\ ret.checks.livenessCheck
    /\ ~ret.checks.faceMatch /\ ~ret.checks.sanctionsCheck
    /\ ~ret.checks.addressVerification
    /\ ret.n = 6
    /\ ret.score = 0


(***************************************************************************)
(* Properties of assessOrder (SpecRisk).                                   *)
(***************************************************************************)
Assessed == ret.op = "assessOrder" /\ ret.outcome = "ok"

\* C2: in every result assessOrder returns, autoApproved and reviewRequired
\* are never both true, autoApproved is true exactly for AUTO_APPROVE,
\* reviewRequired exactly for MANUAL_REVIEW, and both are false exactly for
\* REJECT.
C2_FlagsFollowRecommendation ==
    Assessed =>
        /\ ~(ret.result.autoApproved /\ ret.result.reviewRequired)
        /\ ret.result.autoApproved <=> ret.result.recommendation = "AUTO_APPROVE"
        /\ ret.result.reviewRequired <=> ret.result.recommendation = "MANUAL_REVIEW"
        /\ (~ret.result.autoApproved /\ ~ret.result.reviewRequired)
               <=> ret.result.recommendation = "REJECT"

\* A MANUAL_REVIEW result: review required, not auto-approved.
C2_Witness ==
    /\ Assessed
    /\ ret.result.recommendation = "MANUAL_REVIEW"
    /\ ret.result.reviewRequired
    /\ ~ret.result.autoApproved

\* The orders of the assessed order's counterparty that the three lookups of
\* assessOrder select when the clock reads t: created in the last 720 hours,
\* in the last 24 hours, and after the start of the 30-day dispute window.
WindowsAt(t, order) ==
    [recent |-> {i \in DOMAIN orders :
                     /\ orders[i].counterpartyId = order.counterpartyId
                     /\ orders[i].createdAt >= t - 720},
     rapid |-> {i \in DOMAIN orders :
                    /\ orders[i].counterpartyId = order.counterpartyId
                    /\ orders[i].createdAt >= t - 24},
     disputes |-> {i \in DOMAIN orders :
                       /\ orders[i].counterpartyId = order.counterpartyId
                       /\ orders[i].createdAt > t - 30 * 24}]

Reassessed == Assessed /\ ret.previous # None

\* C5 as stated: two successive assessOrder calls for the same order with the
\* stored data unchanged between them return equal results.
C5_EqualWheneverDataUnchanged ==
    Reassessed => ret.result = ret.previous[1].result

\* C5: two successive assessOrder calls for the same order with the stored
\* data unchanged between them return equal results, provided the clock
\* readings of the two calls select the same orders of the counterparty in
\* the 24-hour, 720-hour and 30-day windows.
C5_EqualWhenWindowsAgree ==
    (/\ Reassessed
     /\ WindowsAt(ret.previous[1].at, orders[ret.orderId])
            = WindowsAt(ret.at, orders[ret.orderId]))
        => ret.result = ret.previous[1].result

\* Two calls 30 hours apart on an order whose windows hold the same orders
\* at both times, with equal results that list at least one factor.
C5_Witness ==
    /\ Reassessed
    /\ ret.previous[1].at # ret.at
    /\ WindowsAt(ret.previous[1].at, orders[ret.orderId])
           = WindowsAt(ret.at, orders[ret.orderId])
    /\ ret.result.factors # <<>>
    /\ ret.result = ret.previous[1].result

\* C14: for an existing order, when the recent-orders or the counterparty
\* history lookup fails during assessOrder, the call still returns a
\* RiskAssessmentResult and the store holds the record made from it.
C14_LookupFailureIsolated ==
    (ret.op = "assessOrder" /\ ret.orderId \in DOMAIN orders /\ ret.lookupFailed)
        => /\ ret.outcome = "ok"
           /\ ret.result # null
           /\ riskAssessments[ret.orderId] = Some(storeAssessment(ret.result))

\* C18: assessOrder never returns AUTO_APPROVE (nor autoApproved) for an
\* order that has no stored KYC record or whose stored KYC status is
\* REJECTED or REQUIRES_REVIEW, whatever its amount, payment method,
\* documents, messages and history.
C18_NoAutoApproveWithoutKyc ==
    (/\ Assessed
     /\ \/ kycVerifications[ret.orderId] = None
        \/ kycVerifications[ret.orderId][1].status
               \in {"REJECTED", "REQUIRES_REVIEW"})
        => /\ ret.result.recommendation # "AUTO_APPROVE"
           /\ ~ret.result.autoApproved

\* An order without a KYC record whose overall score stays below the manual
\* review threshold: the HIGH factor alone keeps it from auto-approval.
C18_Witness ==
    /\ Assessed
    /\ kycVerifications[ret.orderId] = None
    /\ ret.result.overallScore.num
           < MANUAL_REVIEW_THRESHOLD * ret.result.overallScore.den
    /\ ~HasSeverity(ret.result.factors, "CRITICAL")
    /\ ret.result.recommendation = "MANUAL_REVIEW"

\* C20: when assessOrder assesses a stored order whose counterparty has no
\* other order, the result holds a NEW_COUNTERPARTY factor of severity
\* MEDIUM and score 0.4.
C20_NewCounterparty ==
    (/\ Assessed
     /\ \A i \in DOMAIN orders :
            i # ret.orderId
                => orders[i].counterpartyId # orders[ret.orderId].counterpartyId)
        => \E i \in DOMAIN ret.result.factors :
               ret.result.factors[i] = Factor("NEW_COUNTERPARTY", "MEDIUM", 4)

\* The factors of a result whose type is one of the given types, in order.
FactorsOfType(factors, types) == SelectSeq(factors, LAMBDA f : f.type \in types)

CommunicationTypes ==
    {"NO_COMMUNICATION", "SUSPICIOUS_COMMUNICATION", "EXCESSIVE_MESSAGING"}

\* C21: when the assessed order has no chat message authored by the
\* counterparty (no message at all, or messages of the operator only), the
\* communication factors of the result are exactly one NO_COMMUNICATION
\* factor of severity MEDIUM and score 0.3.
C21_NoCounterpartyMessage ==
    (/\ Assessed
     /\ \A i \in DOMAIN chatMessages[ret.orderId] :
            ~chatMessages[ret.orderId][i].isFromUser)
        => FactorsOfType(ret.result.factors, CommunicationTypes)
               = <<Factor("NO_COMMUNICATION", "MEDIUM", 3)>>

\* C22: for an assessed order with a stored KYC record whose status is
\* neither REJECTED nor REQUIRES_REVIEW and whose stored risk score is below
\* 0.6, a score of 0 included, the result holds a LOW_KYC_SCORE factor of
\* severity MEDIUM and score 0.5.
C22_LowKycScore ==
    (/\ Assessed
     /\ kycVerifications[ret.orderId] # None
     /\ kycVerifications[ret.orderId][1].status
            \notin {"REJECTED", "REQUIRES_REVIEW"}
     /\ kycVerifications[ret.orderId][1].riskScore < 60)
        => FactorsOfType(ret.result.factors, {"LOW_KYC_SCORE"})
               = <<Factor("LOW_KYC_SCORE", "MEDIUM", 5)>>

\* The counterparty's orders other than the assessed one that were created
\* in the 720 hours before the call.
PriorOrders(order, t) ==
    {i \in DOMAIN orders :
         /\ i # order.id
         /\ orders[i].counterpartyId = order.counterpartyId
         /\ orders[i].createdAt >= t - 720}

RECURSIVE AmountSum(_)
AmountSum(ids) ==
    IF ids = {} THEN 0
    ELSE LET i == CHOOSE j \in ids : TRUE
         IN  orders[i].amount + AmountSum(ids \ {i})

\* |amount - m| / m > 2.0 for the mean m of the prior orders' amounts, with
\* both sides multiplied by their sum.
StatedUnusualAmount(order, t) ==
    /\ PriorOrders(order, t) # {}
    /\ Abs(order.amount * Cardinality(PriorOrders(order, t))
               - AmountSum(PriorOrders(order, t)))
           > 2 * AmountSum(PriorOrders(order, t))

\* C23: the result of assessOrder holds the UNUSUAL_AMOUNT_PATTERN factor
\* (MEDIUM, 0.5) exactly when the counterparty has a prior order in the
\* 720-hour lookback and the amount deviates from the mean of the prior
\* orders' amounts by more than twice that mean.
C23_UnusualAmount ==
    Assessed
        => ((\E i \in DOMAIN ret.result.factors :
                 ret.result.factors[i] = Factor("UNUSUAL_AMOUNT_PATTERN", "MEDIUM", 5))
                <=> StatedUnusualAmount(orders[ret.orderId], ret.at))

\* C24: the record assessOrder has persisted, created or updated, holds the
\* returned result's riskLevel (LOW, MEDIUM, HIGH or CRITICAL) in its
\* recommendation field, and the result's overallScore, autoApproved,
\* reviewRequired and notes.
C24_StoredRecommendationIsLevel ==
    Assessed
        => /\ riskAssessments[ret.orderId] # None
           /\ riskAssessments[ret.orderId][1].recommendation = ret.result.riskLevel
           /\ riskAssessments[ret.orderId][1].recommendation
                  \in {"LOW", "MEDIUM", "HIGH", "CRITICAL"}
           /\ riskAssessments[ret.orderId][1].overallScore = ret.result.overallScore
           /\ riskAssessments[ret.orderId][1].autoApproved = ret.result.autoApproved
           /\ riskAssessments[ret.orderId][1].reviewRequired
                  = ret.result.reviewRequired
           /\ riskAssessments[ret.orderId][1].notes = ret.result.notes

\* A second assessment of an order (the record is updated) that recommends
\* MANUAL_REVIEW at risk level LOW: the stored recommendation reads LOW.
C24_Witness ==
    /\ Reassessed
    /\ ret.result.recommendation = "MANUAL_REVIEW"
    /\ ret.result.riskLevel = "LOW"
    /\ riskAssessments[ret.orderId][1].recommendation = "LOW"
    /\ riskAssessments[ret.orderId][1].reviewRequired

\* C25: assessOrder returns REJECT exactly when the order's stored KYC
\* status is REJECTED, and the only CRITICAL factor a result ever holds is
\* KYC_REJECTED: no amount, payment method, document, message or history
\* condition alone leads to REJECT.
C25_RejectIffKycRejected ==
    Assessed
        => /\ ret.result.recommendation = "REJECT"
                  <=> /\ kycVerifications[ret.orderId] # None
                      /\ kycVerifications[ret.orderId][1].status = "REJECTED"
           /\ \A i \in DOMAIN ret.result.factors :
                  ret.result.factors[i].severity = "CRITICAL"
                      => ret.result.factors[i].type = "KYC_REJECTED"

\* A rejected KYC record next to other findings: the result is REJECT.
C25_Witness ==
    /\ Assessed
    /\ kycVerifications[ret.orderId] # None
    /\ kycVerifications[ret.orderId][1].status = "REJECTED"
    /\ Len(ret.result.factors) > 1
    /\ HasSeverity(ret.result.factors, "HIGH")
    /\ ret.result.recommendation = "REJECT"

(***************************************************************************)
(* Properties of concurrent assessOrder calls (SpecUpsert).                *)
(***************************************************************************)
\* The rows of the table that belong to an order.
RowsOf(rows, orderId) == SelectSeq(rows, LAMBDA r : r.orderId = orderId)

\* C16: under any interleaving of assessOrder calls the table holds at most
\* one risk-assessment row per orderId; a store step leaves for its order
\* exactly the row made from that call's result, so the row is that of the
\* store step that ran last; a store step leaves the rows of every other
\* order as they were, and no other step changes the table.
C16_LastStoreWins ==
    /\ [](\A orderId \in OrderIds :
              Len(RowsOf(riskAssessmentRows, orderId)) <= 1)
    /\ [][\A c \in Callers :
              IF calls[c].pc = "store" /\ calls'[c].pc = "done"
              THEN /\ RowsOf(riskAssessmentRows', calls[c].orderId)
                          = <<storeAssessment(calls[c].result)>>
                   /\ \A other \in OrderIds \ {calls[c].orderId} :
                          RowsOf(riskAssessmentRows', other)
                              = RowsOf(riskAssessmentRows, other)
              ELSE (\A d \in Callers : calls'[d].pc = "done" => calls[d].pc = "done")
                       => riskAssessmentRows' = riskAssessmentRows]_vars

\* Two calls for the same order with different results, the one that began
\* first storing last: the table holds the earlier call's result, and the
\* row of the other order is in place.
C16_Witness ==
    /\ ret.op = "storeAssessment"
    /\ \E c \in Callers \ {ret.caller} :
           /\ calls[c].pc = "done" /\ calls[ret.caller].pc = "done"
           /\ calls[c].orderId = ret.orderId
           /\ calls[ret.caller].orderId = ret.orderId
           /\ calls[ret.caller].at < calls[c].at
           /\ calls[c].result # calls[ret.caller].result
           /\ RowsOf(riskAssessmentRows, ret.orderId)
                  = <<storeAssessment(calls[ret.caller].result)>>
    /\ Len(riskAssessmentRows) = 2

(***************************************************************************)
(* Properties of the browser automation (SpecBrowser).                     *)
(***************************************************************************)
IsPrefix(s, t) == Len(s) <= Len(t) /\ \A i \in DOMAIN s : t[i] = s[i]

\* C19: no step of the browser-automation service (session start and end,
\* monitoring tick, handling of a detected order, message or document with
\* the workflows it triggers) sends a message or writes a chat reply: no
\* message is ever sent and no reply is ever SENT, and a step only adds rows
\* to the order, message, document and audit tables and events to those
\* emitted.
C19_NeverSends ==
    /\ [](/\ automation.sentMessages = <<>>
          /\ \A i \in DOMAIN automation.chatReply :
                 automation.chatReply[i].status # "SENT")
    /\ [][/\ automation'.sentMessages = automation.sentMessages
           /\ automation'.chatReply = automation.chatReply
           /\ IsPrefix(automation.p2POrder, automation'.p2POrder)
           /\ IsPrefix(automation.chatMessage, automation'.chatMessage)
           /\ IsPrefix(automation.document, automation'.document)
           /\ IsPrefix(automation.auditLog, automation'.auditLog)
           /\ IsPrefix(automation.events, automation'.events)]_vars

\* A monitored session after the three workflows ran: an order, a message
\* from the counterparty and a document were detected and recorded, the
\* events were emitted, and nothing was sent.
C19_Witness ==
    /\ \E s \in automation.sessions : s.lastActivity > s.id[1]
    /\ {automation.events[i].type : i \in DOMAIN automation.events}
           = {"ORDER_DETECTED", "MESSAGE_RECEIVED", "DOCUMENT_UPLOADED"}
    /\ Len(automation.p2POrder) = 1 /\ Len(automation.auditLog) = 1
    /\ Len(automation.chatMessage) = 1 /\ automation.chatMessage[1].isFromUser
    /\ Len(automation.document) = 1
    /\ automation.sentMessages = <<>> /\ automation.chatReply = <<>>

(***************************************************************************)
(* Properties of verifyIdentity (SpecKyc).                                 *)
(***************************************************************************)
Verified == ret.op = "verifyIdentity" /\ ret.outcome = "ok"

NoIdentityDocument(docs) ==
    \A i \in DOMAIN docs :
        docs[i].fileType \notin {"ID_CARD", "PASSPORT", "DRIVERS_LICENSE"}

\* C6: verifyIdentity on a stored order none of whose documents is an ID
\* card, passport or driver's licence fails with the 'no identity documents'
\* error, returns no result, and the order has no KycVerification record.
C6_NoIdentityDocuments ==
    (/\ ret.op = "verifyIdentity"
     /\ ret.orderId \in DOMAIN orders
     /\ NoIdentityDocument(documents[ret.orderId]))
        => /\ ret.outcome = "error"
           /\ ret.error = "No identity documents found"
           /\ ret.result = null
           /\ kycVerifications[ret.orderId] = None

\* The call on an order whose only document is a selfie.
C6_Witness ==
    /\ ret.op = "verifyIdentity"
    /\ ret.orderId \in DOMAIN orders
    /\ documents[ret.orderId] = <<DocSelfie>>
    /\ ret.outcome = "error"

ButLast(seq) == SubSeq(seq, 1, Len(seq) - 1)

\* C8: when a step of the pipeline raises a fault, verifyIdentity still
\* returns a result, its status is REJECTED, 'Verification process failed' is
\* the last reason, and the score is the one the result held when the fault
\* occurred: the score computed from the checks and the reasons before the
\* appended one if the fault came after scoring, the initial 0 otherwise.
C8_FaultForcesRejected ==
    (ret.op = "verifyIdentity" /\ ret.thrown) =>
        /\ ret.outcome = "ok"
        /\ ret.result.status = "REJECTED"
        /\ ret.result.riskFactors # <<>>
        /\ ret.result.riskFactors[Len(ret.result.riskFactors)] = ReasonProcessFailed
        /\ ret.result.score =
               IF ret.scoredBeforeThrow
               THEN Max(0, StatedChecksSum(ret.result.checks)
                           - 10 * Len(ButLast(ret.result.riskFactors)))
               ELSE 0

\* A verification that had scored 0.90 with no reason when storing the
\* record failed.
C8_Witness ==
    /\ ret.op = "verifyIdentity"
    /\ ret.thrown
    /\ ret.scoredBeforeThrow
    /\ ret.result.score = 90
    /\ ret.result.riskFactors = <<ReasonProcessFailed>>
    /\ ret.result.status = "REJECTED"

\* C9: when the sanctions list reports a hit for the extracted name, the
\* returned status is REJECTED whatever the score and the other checks are,
\* sanctionsCheck is false, and a reason mentioning sanctions is listed.
C9_SanctionsHitRejected ==
    (ret.op = "verifyIdentity" /\ ret.hit) =>
        /\ ret.outcome = "ok"
        /\ ret.result.status = "REJECTED"
        /\ ~ret.result.checks.sanctionsCheck
        /\ \E i \in DOMAIN ret.result.riskFactors :
               ret.result.riskFactors[i] = ReasonSanctioned

\* A hit on a run without fault whose score, 0.55, is in the review range.
C9_Witness ==
    /\ Verified
    /\ ret.hit
    /\ ~ret.thrown
    /\ ret.result.score = 55
    /\ ret.result.checks.documentValid
    /\ ret.result.checks.faceMatch
    /\ ret.result.status = "REJECTED"

\* The three-way classification as the property states it.
StatedStatus(score, riskFactors) ==
    IF score >= 90 /\ riskFactors = <<>> THEN "APPROVED"
    ELSE IF score < 30 \/ \E i \in DOMAIN riskFactors :
                              includesSanctions(riskFactors[i])
    THEN "REJECTED"
    ELSE "REQUIRES_REVIEW"

\* C10: on a run of verifyIdentity without fault the status is APPROVED if
\* and only if score >= 0.9 and there is no reason; otherwise REJECTED if
\* score < 0.3 or some reason mentions sanctions; otherwise REQUIRES_REVIEW.
C10_StatusClassification ==
    (Verified /\ ~ret.thrown) =>
        ret.result.status = StatedStatus(ret.result.score, ret.result.riskFactors)

\* A run without fault that scores 0.75 with no reason: under review.
C10_Witness ==
    /\ Verified
    /\ ~ret.thrown
    /\ ret.result.score = 75
    /\ ret.result.riskFactors = <<>>
    /\ ret.result.status = "REQUIRES_REVIEW"

\* The answers the providers gave for the order's identity documents, in
\* processing order; an unasked provider counts as answering FALSE.
AnswersGiven == providers.answers

\* C13: on a run over several identity documents a checklist field that a
\* validated document set to true is not set back to false by a later
\* document: documentValid, faceMatch and livenessCheck are true in the
\* result whenever some document's authenticity check, face match or liveness
\* check passed.  (addressVerification is set to true by no document: no
\* pattern of extractPatterns yields an address.)
C13_NeverDowngraded ==
    (Verified /\ ~ret.thrown) =>
        /\ (\E k \in DOMAIN AnswersGiven : AnswersGiven[k].valid)
               => ret.result.checks.documentValid
        /\ (\E k \in DOMAIN AnswersGiven : AnswersGiven[k].face)
               => ret.result.checks.faceMatch
        /\ (\E k \in DOMAIN AnswersGiven : AnswersGiven[k].live)
               => ret.result.checks.livenessCheck

ExternalChecks ==
    {"extractPatterns", "validateDocument", "performFaceMatch",
     "performLivenessCheck", "verifyAddress"}

\* C15: when one external check on one document fails during verifyIdentity,
\* the run is not aborted: the call returns a result whose score is computed
\* from the checklist and the reasons, without the 'Verification process
\* failed' reason, and the order's KycVerification record holds that result.
C15_CheckFailureIsolated ==
    (ret.op = "verifyIdentity" /\ ret.thrownAt \in ExternalChecks) =>
        /\ ret.outcome = "ok"
        /\ \A i \in DOMAIN ret.result.riskFactors :
               ret.result.riskFactors[i] # ReasonProcessFailed
        /\ ret.result.score =
               Max(0, StatedChecksSum(ret.result.checks)
                      - 10 * Len(ret.result.riskFactors))
        /\ kycVerifications[ret.orderId] = Some(KycRecord(ret.result))

\* C17: a second run of verifyIdentity for an order, right after a run that
\* completed and with the same documents and provider answers, returns the
\* result of the first run, and the order's one KycVerification record then
\* holds that result.
C17_RerunOverwrites ==
    [][(/\ Verified
        /\ ~ret.thrown
        /\ ret'.op = "verifyIdentity"
        /\ ret'.orderId = ret.orderId
        /\ ret'.thrownAt \in {"none", "create"})
           => /\ ret'.outcome = "ok"
              /\ ret'.result = ret.result
              /\ kycVerifications'[ret.orderId] = Some(KycRecord(ret'.result))]_vars

\* C26: in every KYCResult verifyIdentity returns no address has been
\* extracted, addressVerification is false, and the score is at most 0.9.
C26_AddressNeverVerified ==
    Verified
        => /\ ret.result.extractedData.address = null
           /\ ~ret.result.checks.addressVerification
           /\ ret.result.score <= 90

\* A run in which every other check passed and the address provider would
\* have answered yes: the score is 0.9 and addressVerification is false.
C26_Witness ==
    /\ Verified
    /\ ~ret.thrown
    /\ \E i \in DOMAIN AnswersGiven : AnswersGiven[i].address
    /\ ret.result.checks.documentValid
    /\ ret.result.checks.faceMatch
    /\ ret.result.checks.livenessCheck
    /\ ret.result.checks.sanctionsCheck
    /\ ~ret.result.checks.addressVerification
    /\ ret.result.score = 90

\* The run got past the document loop: nothing threw, or a step after the
\* sanctions screening did.
DocumentsProcessed ==
    ret.thrownAt \in {"none", "calculateKYCScore", "determineKYCStatus", "create"}

\* C27: when no full name has been extracted by the end of document
\* processing, the sanctions list is not consulted (no hit is recorded even
\* where the list would answer with one), sanctionsCheck is false, a recorded
\* reason mentions sanctions, and the status is REJECTED.
C27_NoNameRejected ==
    (Verified /\ DocumentsProcessed /\ ret.result.extractedData.fullName = null)
        => /\ ~ret.hit
           /\ ~ret.result.checks.sanctionsCheck
           /\ \E i \in DOMAIN ret.result.riskFactors :
                  /\ ret.result.riskFactors[i] = ReasonNoName
                  /\ includesSanctions(ret.result.riskFactors[i])
           /\ ret.result.status = "REJECTED"

\* A driver's licence with OCR text that validates, and a sanctions list
\* that would answer with a hit: nothing threw, no name, REJECTED for the
\* missing name alone.
C27_Witness ==
    /\ Verified
    /\ ret.thrownAt = "none"
    /\ providers.sanctioned
    /\ documents[ret.orderId] = <<DocLicense>>
    /\ ret.result.extractedData.fullName = null
    /\ ret.result.checks.documentValid
    /\ ret.result.riskFactors = <<ReasonNoName>>
    /\ ret.result.status = "REJECTED"

(***************************************************************************)
(* Properties of OCRService.processDocument (SpecOcr).                     *)
(***************************************************************************)
\* The status of the document a call is about, after a step.
StatusAfter(call) == ocr'.document[call.documentId][1].status

\* C29: a processDocument call on a missing document or one without a
\* localPath fails and changes no document; a call that goes on to OCR has
\* set the status to PROCESSING; a call that returns a result leaves
\* PROCESSED with the result's text and confidence stored; a call in which
\* OCR raised an error leaves FAILED and rethrows that error; no call that
\* finishes leaves its document in PROCESSING.
C29_ProcessDocumentStatus ==
    [][\A c \in Callers :
          LET before == ocr.calls[c]
              after == ocr'.calls[c]
          IN  /\ (before.pc \in {"idle", "done"} /\ after # before
                     /\ after.pc = "done")
                    => /\ after.outcome = "error"
                       /\ ocr'.document = ocr.document
              /\ (before.pc = "processing" /\ after.pc = "primary")
                    => StatusAfter(after) = "PROCESSING"
              /\ (before.pc = "store" /\ after.pc = "done")
                    => /\ after.outcome = "ok"
                       /\ StatusAfter(after) = "PROCESSED"
                       /\ ocr'.document[after.documentId][1].ocrText
                              = after.result[1].text
                       /\ ocr'.document[after.documentId][1].ocrConfidence
                              = Some(after.result[1].confidence)
              /\ (before.pc = "catch" /\ before.error = "OCR failed"
                     /\ after.pc = "done")
                    => /\ after.outcome = "error"
                       /\ after.error = "OCR failed"
                       /\ StatusAfter(after) = "FAILED"
              /\ (before.pc \in {"store", "catch"} /\ after.pc = "done")
                    => StatusAfter(after) # "PROCESSING"]_vars

\* The same, for the calls whose catch block could write FAILED.
C29_WhenFailedIsWritten ==
    [][\A c \in Callers :
          LET before == ocr.calls[c]
              after == ocr'.calls[c]
          IN  /\ (before.pc \in {"idle", "done"} /\ after # before
                     /\ after.pc = "done")
                    => /\ after.outcome = "error"
                       /\ ocr'.document = ocr.document
              /\ (before.pc = "processing" /\ after.pc = "primary")
                    => StatusAfter(after) = "PROCESSING"
              /\ (before.pc = "store" /\ after.pc = "done")
                    => /\ after.outcome = "ok"
                       /\ StatusAfter(after) = "PROCESSED"
                       /\ ocr'.document[after.documentId][1].ocrText
                              = after.result[1].text
                       /\ ocr'.document[after.documentId][1].ocrConfidence
                              = Some(after.result[1].confidence)
              /\ (before.pc = "catch" /\ after.pc = "done"
                     /\ ocr'.document # ocr.document)
                    => /\ after.outcome = "error"
                       /\ after.error = before.error
                       /\ StatusAfter(after) = "FAILED"]_vars

\* A call has ended with an error while its document is in PROCESSING and
\* no other call is in flight.
C29_StuckInProcessing ==
    \E c \in Callers :
        /\ ocr.calls[c].pc = "done"
        /\ ocr.calls[c].outcome = "error"
        /\ ocr.calls[c].documentId = "d1"
        /\ ocr.document["d1"][1].status = "PROCESSING"
        /\ \A other \in Callers \ {c} : ocr.calls[other].pc = "idle"

(***************************************************************************)
(* Properties of concurrent processDetectedOrder calls (SpecDetect).       *)
(***************************************************************************)
RowsWith(a, binanceOrderId) ==
    {i \in DOMAIN a.p2POrder : a.p2POrder[i].binanceOrderId = binanceOrderId}

WorkflowsOf(a, orderId) ==
    {j \in DOMAIN a.auditLog :
         /\ a.auditLog[j].action = "ORDER_WORKFLOW_STARTED"
         /\ a.auditLog[j].details.orderId = orderId}

DetectedEventsOf(a, orderId) ==
    {j \in DOMAIN a.events : /\ a.events[j].type = "ORDER_DETECTED"
                             /\ a.events[j].orderId = orderId}

\* C30: under every interleaving of processDetectedOrder calls for the same
\* binanceOrderId at most one p2POrder row holds that binanceOrderId, the
\* order workflows are triggered at most once for a row, every
\* ORDER_DETECTED event names a stored row whose workflows were triggered,
\* and no event names a row that existed before the calls; a call that finds
\* the row, or whose create is rejected, writes nothing.
C30_OneOrderPerDetection ==
    /\ [](\A orderData \in RacedOrders :
              Cardinality(RowsWith(automation, orderData.binanceOrderId)) <= 1)
    /\ [](\A orderId \in 1..(Len(automation.p2POrder) + 1) :
              /\ Cardinality(WorkflowsOf(automation, orderId)) <= 1
              /\ Cardinality(DetectedEventsOf(automation, orderId)) <= 1
              /\ DetectedEventsOf(automation, orderId) # {}
                    => /\ orderId \in DOMAIN automation.p2POrder
                       /\ automation.p2POrder[orderId] # ExistingOrder
                       /\ WorkflowsOf(automation, orderId) # {})
    /\ [](\A j \in DOMAIN automation.events :
              automation.events[j].orderId \in DOMAIN automation.p2POrder)
    /\ [][\A c \in Callers :
              (calls'[c] # calls[c] /\ calls'[c].pc = "done"
                 /\ calls'[c].outcome \in {"existing", "rejected"})
                 => automation' = automation]_vars

\* Two calls for B1 both passed findUnique before either created: one has
\* created the row and emitted its event, the create of the other was
\* rejected.
C30_Witness ==
    /\ calls[1].pc = "done" /\ calls[2].pc = "done"
    /\ calls[1].orderData.binanceOrderId = "B1"
    /\ calls[2].orderData.binanceOrderId = "B1"
    /\ {calls[1].outcome, calls[2].outcome} = {"detected", "rejected"}
    /\ Cardinality(RowsWith(automation, "B1")) = 1
    /\ Len(automation.events) = 1

(***************************************************************************)
(* Properties of both services (Spec).                                     *)
(***************************************************************************)
\* C28: a verifyIdentity call that returns through the last-resort guard
\* (REJECTED with the 'verification process failed' reason) leaves the
\* stored KYC records as they were, and an assessOrder that follows it reads
\* the record stored before: with none stored it reports the missing
\* verification and no rejected one.
C28_GuardedRunStoresNothing ==
    /\ [][(/\ ret'.op = "verifyIdentity"
            /\ ret'.outcome = "ok"
            /\ ret'.thrown)
               => /\ ret'.result.status = "REJECTED"
                  /\ \E i \in DOMAIN ret'.result.riskFactors :
                         ret'.result.riskFactors[i] = ReasonProcessFailed
                  /\ kycVerifications' = kycVerifications]_vars
    /\ []((Assessed /\ ret.followsGuarded)
              => IF kycVerifications[ret.orderId] = None
                 THEN FactorsOfType(ret.result.factors,
                                    {"NO_KYC_VERIFICATION", "KYC_REJECTED"})
                          = <<Factor("NO_KYC_VERIFICATION", "HIGH", 9)>>
                 ELSE FactorsOfType(ret.result.factors, {"KYC_REJECTED"}) # <<>>
                          <=> kycVerifications[ret.orderId][1].status = "REJECTED")

\* An assessOrder right after a guarded verifyIdentity of an order without a
\* stored record: the result carries NO_KYC_VERIFICATION and is not a REJECT.
C28_Witness ==
    /\ Assessed
    /\ ret.followsGuarded
    /\ kycVerifications[ret.orderId] = None
    /\ ret.result.recommendation = "MANUAL_REVIEW"
    /\ HasSeverity(ret.result.factors, "HIGH")

\* C7: after a call of assessOrder or verifyIdentity with an orderId that
\* matches no stored order, the call has failed with 'Order not found', has
\* produced no result, and the step has left the stored risk assessments and
\* KYC records of every order unchanged.
C7_OrderNotFound ==
    [][(ret'.op \in {"assessOrder", "verifyIdentity"}
        /\ ret'.orderId \notin DOMAIN orders)
           => /\ ret'.outcome = "error"
              /\ ret'.error = "Order not found"
              /\ ret'.result = null
              /\ UNCHANGED <<riskAssessments, kycVerifications>>]_vars

\* assessOrder called with an unknown id while order 1 has a stored risk
\* assessment and a stored KYC record.
C7_Witness ==
    /\ ret.op = "assessOrder"
    /\ ret.orderId \notin DOMAIN orders
    /\ ret.outcome = "error"
    /\ riskAssessments[1] # None
    /\ kycVerifications[1] # None

====
